---------------------------- MODULE Spec2Model ----------------------------
(***************************************************************************)
(* Semantic Sentinel: the guardrails engine (guardrails_lib/engine.py),    *)
(* the profile factory (guardrails_lib/factory.py), the gateway handlers   *)
(* (app/main.py) and the OpenAI client wrapper                             *)
(* (sentinel/integrations/openai.py).                                      *)
(*                                                                         *)
(* Text is a sequence of one-character strings, so that the regular        *)
(* expressions of the engine are computed character by character.          *)
(***************************************************************************)
EXTENDS Integers, Sequences, FiniteSets, TLC

(***************************************************************************)
(* Characters.  Ascii lists the characters the model uses in code-point    *)
(* order; Ord is the order Python compares strings by.                     *)
(***************************************************************************)
Ascii ==
  << " ", "(", ")", ",", "-", ".",
     "0", "1", "2", "3", "4", "5", "6", "7", "8", "9",
     ":", "<", ">", "@",
     "A", "B", "C", "D", "E", "F", "G", "H", "I", "J", "K", "L", "M",
     "N", "O", "P", "Q", "R", "S", "T", "U", "V", "W", "X", "Y", "Z",
     "_",
     "a", "b", "c", "d", "e", "f", "g", "h", "i", "j", "k", "l", "m",
     "n", "o", "p", "q", "r", "s", "t", "u", "v", "w", "x", "y", "z" >>

Ord(c) == CHOOSE i \in 1..Len(Ascii) : Ascii[i] = c

Digits == {"0", "1", "2", "3", "4", "5", "6", "7", "8", "9"}

UpperLetters ==
  {"A", "B", "C", "D", "E", "F", "G", "H", "I", "J", "K", "L", "M",
   "N", "O", "P", "Q", "R", "S", "T", "U", "V", "W", "X", "Y", "Z"}

LowerLetters ==
  {"a", "b", "c", "d", "e", "f", "g", "h", "i", "j", "k", "l", "m",
   "n", "o", "p", "q", "r", "s", "t", "u", "v", "w", "x", "y", "z"}

\* [a-zA-Z]
Letters == UpperLetters \cup LowerLetters

\* \w of Python's re on ASCII text: [a-zA-Z0-9_]
WordChars == Letters \cup Digits \cup {"_"}

\* [a-zA-Z0-9._%+-], the local part of the EMAIL pattern
EmailLocalChars == Letters \cup Digits \cup {".", "_", "%", "+", "-"}

\* [a-zA-Z0-9.-], the domain part of the EMAIL pattern
EmailDomainChars == Letters \cup Digits \cup {".", "-"}

\* [-.], the optional separator of the PHONE pattern
PhoneSepChars == {"-", "."}

\* re.IGNORECASE compares characters by their case-folded form
LowerOf == [c \in UpperLetters |-> Ascii[Ord(c) + (Ord("a") - Ord("A"))]]

ToLower(c) == IF c \in UpperLetters THEN LowerOf[c] ELSE c

Max(S) == CHOOSE x \in S : \A y \in S : y <= x

(***************************************************************************)
(* Regular-expression primitives.                                          *)
(***************************************************************************)
\* \b at position i: between t[i-1] and t[i], exactly one is a word character
WordBoundary(t, i) ==
  LET before == (i > 1) /\ (i - 1 <= Len(t)) /\ (t[i - 1] \in WordChars)
      after  == (i >= 1) /\ (i <= Len(t)) /\ (t[i] \in WordChars)
  IN  before # after

\* the last index of the longest run of characters of class cs that starts
\* at i (i - 1 when t[i] is not in cs): a greedy cs*
RECURSIVE RunEnd(_, _, _)
RunEnd(t, i, cs) ==
  IF i <= Len(t) /\ t[i] \in cs THEN RunEnd(t, i + 1, cs) ELSE i - 1

\* \d{n} at position i
DigitsAt(t, i, n) ==
  (i + n - 1 <= Len(t)) /\ (\A k \in i..(i + n - 1) : t[k] \in Digits)

\* [-.]? at position i: the position after it
OptSep(t, i) ==
  IF i <= Len(t) /\ t[i] \in PhoneSepChars THEN i + 1 ELSE i

\* [a-zA-Z0-9._%+-]+@[a-zA-Z0-9.-]+\.[a-zA-Z]{2,} matched at position i:
\* the index of the last character of the match, 0 when there is none.
\* The local run is greedy and "@" is not in its class, so it runs up to
\* the "@"; the domain run is greedy and backtracks to the last "." that
\* two letters follow; the letters after it are taken greedily.
EmailTld(t, dots) ==
  IF dots = {} THEN 0 ELSE RunEnd(t, Max(dots) + 1, Letters)

\* the domain run is t[ds..de]
EmailDomain(t, ds, de) ==
  EmailTld(t, {k \in (ds + 1)..de :
                 /\ t[k] = "."
                 /\ k + 2 <= Len(t)
                 /\ t[k + 1] \in Letters
                 /\ t[k + 2] \in Letters})

\* the local run is t[i..le]
EmailLocal(t, i, le) ==
  IF le < i \/ le + 1 > Len(t) THEN 0
  ELSE IF t[le + 1] # "@" THEN 0
  ELSE EmailDomain(t, le + 2, RunEnd(t, le + 2, EmailDomainChars))

EmailMatchAt(t, i) == EmailLocal(t, i, RunEnd(t, i, EmailLocalChars))

\* \b\d{3}[-.]?\d{3}[-.]?\d{4}\b matched at position i
\* \d{4}\b at position b
PhoneLast(t, b) ==
  IF DigitsAt(t, b, 4) /\ WordBoundary(t, b + 4) THEN b + 3 ELSE 0

\* \d{3}[-.]?\d{4}\b at position a
PhoneMiddle(t, a) ==
  IF ~DigitsAt(t, a, 3) THEN 0 ELSE PhoneLast(t, OptSep(t, a + 3))

PhoneMatchAt(t, i) ==
  IF ~WordBoundary(t, i) \/ ~DigitsAt(t, i, 3) THEN 0
  ELSE PhoneMiddle(t, OptSep(t, i + 3))

\* \b\d{3}-\d{2}-\d{4}\b matched at position i
SsnMatchAt(t, i) ==
  IF /\ WordBoundary(t, i)
     /\ DigitsAt(t, i, 3)
     /\ i + 10 <= Len(t)
     /\ t[i + 3] = "-"
     /\ DigitsAt(t, i + 4, 2)
     /\ t[i + 6] = "-"
     /\ DigitsAt(t, i + 7, 4)
     /\ WordBoundary(t, i + 11)
    THEN i + 10
    ELSE 0

\* the names of the patterns dictionary of GuardrailsEngine.__init__
PiiPatternNames == {"EMAIL", "PHONE", "SSN"}

\* the compiled pattern of a name, matched at position i
PiiMatchAt(name, t, i) ==
  CASE name = "EMAIL" -> EmailMatchAt(t, i)
    [] name = "PHONE" -> PhoneMatchAt(t, i)
    [] name = "SSN"   -> SsnMatchAt(t, i)

\* pattern.search(t): is there a match anywhere
PiiSearch(name, t) == \E i \in 1..Len(t) : PiiMatchAt(name, t, i) # 0

\* f"<{name}_REDACTED>"
Placeholder(name) ==
  CASE name = "EMAIL" ->
         << "<", "E", "M", "A", "I", "L", "_",
            "R", "E", "D", "A", "C", "T", "E", "D", ">" >>
    [] name = "PHONE" ->
         << "<", "P", "H", "O", "N", "E", "_",
            "R", "E", "D", "A", "C", "T", "E", "D", ">" >>
    [] name = "SSN" ->
         << "<", "S", "S", "N", "_",
            "R", "E", "D", "A", "C", "T", "E", "D", ">" >>

\* pattern.sub(msg, t) from position i on: every leftmost non-overlapping
\* match is replaced by the placeholder
RECURSIVE PiiSubFrom(_, _, _)
\* a substitution that puts the placeholder before the match and keeps the
\* match
PiiSubStepKeepsMatch(name, t, i, e) ==
  IF e = 0
    THEN << t[i] >> \o PiiSubFrom(name, t, i + 1)
    ELSE Placeholder(name) \o SubSeq(t, i, e) \o PiiSubFrom(name, t, e + 1)

\* e is the end of the match at i, 0 for none
PiiSubStep(name, t, i, e) ==
  IF e = 0
    THEN << t[i] >> \o PiiSubFrom(name, t, i + 1)
    ELSE Placeholder(name) \o PiiSubFrom(name, t, e + 1)

PiiSubFrom(name, t, i) ==
  IF i > Len(t) THEN << >> ELSE PiiSubStep(name, t, i, PiiMatchAt(name, t, i))

PiiSub(name, t) == PiiSubFrom(name, t, 1)

(***************************************************************************)
(* Strings.                                                                *)
(***************************************************************************)
\* needle in hay
Contains(hay, needle) ==
  \E i \in 1..(Len(hay) - Len(needle) + 1) :
    \A k \in 1..Len(needle) : hay[i + k - 1] = needle[k]

\* a < b in Python's string order
RECURSIVE StrLess(_, _)
StrLess(a, b) ==
  IF Len(a) = 0 THEN Len(b) > 0
  ELSE IF Len(b) = 0 THEN FALSE
  ELSE IF a[1] = b[1] THEN StrLess(Tail(a), Tail(b))
  ELSE Ord(a[1]) < Ord(b[1])

\* sorted(list(S))
RECURSIVE Sorted(_)
SortedFrom(m, S) == << m >> \o Sorted(S \ {m})

Sorted(S) ==
  IF S = {} THEN << >>
  ELSE SortedFrom(CHOOSE x \in S : \A y \in S \ {x} : StrLess(x, y), S)

\* sep.join(parts)
RECURSIVE Join(_, _)
Join(sep, parts) ==
  IF Len(parts) = 0 THEN << >>
  ELSE IF Len(parts) = 1 THEN parts[1]
  ELSE parts[1] \o sep \o Join(sep, Tail(parts))

S_PII == << "P", "I", "I", ":" >>
S_Topic == << "T", "o", "p", "i", "c", ":" >>
S_PiiRedacted ==
  << "P", "I", "I", " ", "R", "e", "d", "a", "c", "t", "e", "d" >>
S_SemanticOpen ==
  << "S", "e", "m", "a", "n", "t", "i", "c", ":", "I", "n", "t", "e", "n",
     "t", " ", "v", "i", "o", "l", "a", "t", "i", "o", "n", " ", "(" >>
S_Comma == << "," >>
S_CommaSpace == << ",", " " >>

\* the characters of a pattern name, for f"PII:{name}"
NameChars(name) ==
  CASE name = "EMAIL" -> << "E", "M", "A", "I", "L" >>
    [] name = "PHONE" -> << "P", "H", "O", "N", "E" >>
    [] name = "SSN"   -> << "S", "S", "N" >>

DigitChar(d) == Ascii[Ord("0") + d]

\* f"{max_score:.2f}" of a similarity given in hundredths
Format2f(s) ==
  << DigitChar(s \div 100), ".",
     DigitChar((s % 100) \div 10), DigitChar(s % 10) >>

(***************************************************************************)
(* The topic pattern \b(p1|p2|...)\b compiled with re.IGNORECASE from the  *)
(* escaped phrases of the block list (phrases are not empty).              *)
(***************************************************************************)
\* the literal phrase p at position i, letters compared without case
PhraseAt(t, i, p) ==
  /\ i + Len(p) - 1 <= Len(t)
  /\ \A k \in 1..Len(p) : ToLower(t[i + k - 1]) = ToLower(p[k])

\* the pattern matched at position i: the index of the last character of
\* the match, 0 when there is none; the alternatives are tried in order
Min(S) == CHOOSE x \in S : \A y \in S : x <= y

\* ok is the set of the alternatives that match at i
TopicFirst(i, block_list, ok) ==
  IF ok = {} THEN 0 ELSE i + Len(block_list[Min(ok)]) - 1

TopicMatchAt(t, i, block_list) ==
  IF ~WordBoundary(t, i) THEN 0
  ELSE TopicFirst(i, block_list,
                  {j \in 1..Len(block_list) :
                     /\ PhraseAt(t, i, block_list[j])
                     /\ WordBoundary(t, i + Len(block_list[j]))})

\* topic_pattern.findall(t) from position i on: the matched substrings
RECURSIVE TopicFindAllFrom(_, _, _)
\* e is the end of the match at i, 0 for none
TopicFindStep(t, i, block_list, e) ==
  IF e = 0
    THEN TopicFindAllFrom(t, i + 1, block_list)
    ELSE << SubSeq(t, i, e) >> \o TopicFindAllFrom(t, e + 1, block_list)

TopicFindAllFrom(t, i, block_list) ==
  IF i > Len(t) THEN << >>
  ELSE TopicFindStep(t, i, block_list, TopicMatchAt(t, i, block_list))

TopicFindAll(t, block_list) == TopicFindAllFrom(t, 1, block_list)

SeqRange(s) == {s[i] : i \in 1..Len(s)}

(***************************************************************************)
(* GuardrailsEngine.  A profile description (config) is a record with      *)
(* every key present: a missing key of the YAML is its .get default.       *)
(* backend is what the embedding backend does while the engine is built:   *)
(* "ok", "missing" (the import failed, SEMANTIC_AVAILABLE is False),       *)
(* "load_fails" (SentenceTransformer(...) throws) or "encode_fails"        *)
(* (encode(intents) throws).                                               *)
(***************************************************************************)
Backends == {"ok", "missing", "load_fails", "encode_fails"}

\* the default of semantic_cfg.get("threshold", 0.8), in hundredths
DefaultThreshold == 80

\* step 1 of __init__: the enabled names the patterns dictionary knows,
\* in the order the profile lists them
CompilePii(config) ==
  IF config.pii.enabled
    THEN SelectSeq(config.pii.patterns, LAMBDA key : key \in PiiPatternNames)
    ELSE << >>

\* step 2 of __init__: the block list the topic regex is compiled from,
\* << >> for topic_pattern = None
CompileTopics(config) ==
  IF config.topics.enabled THEN config.topics.block_list ELSE << >>

\* step 3 of __init__: is semantic_model set
LoadSemanticModel(config, backend) ==
  /\ config.semantic_blocking.enabled
  /\ backend \in {"ok", "encode_fails"}

\* step 3 of __init__: is forbidden_embeddings set
EncodeIntents(config, backend) ==
  /\ config.semantic_blocking.enabled
  /\ backend = "ok"
  /\ config.semantic_blocking.forbidden_intents > 0

\* an __init__ that gives up its PII and topic patterns with the semantic
\* model when the backend fails
GuardrailsEngineDroppingDetectors(config, backend) ==
  [ profile_name |-> config.profile_name,
    pii_patterns |->
      IF backend = "ok" THEN CompilePii(config) ELSE << >>,
    topic_pattern |->
      IF backend = "ok" THEN CompileTopics(config) ELSE << >>,
    semantic_model |-> LoadSemanticModel(config, backend),
    forbidden_embeddings |-> EncodeIntents(config, backend),
    semantic_threshold |->
      IF EncodeIntents(config, backend)
        THEN config.semantic_blocking.threshold
        ELSE 0 ]

GuardrailsEngine(config, backend) ==
  [ profile_name |-> config.profile_name,
    pii_patterns |-> CompilePii(config),
    topic_pattern |-> CompileTopics(config),
    semantic_model |-> LoadSemanticModel(config, backend),
    forbidden_embeddings |-> EncodeIntents(config, backend),
    semantic_threshold |->
      IF EncodeIntents(config, backend)
        THEN config.semantic_blocking.threshold
        ELSE 0 ]

\* step 1 of scan, patterns k.. of the engine applied in order to the
\* running text: [text, triggered]
RECURSIVE PiiPass(_, _, _, _)
PiiPass(patterns, k, text, triggered) ==
  IF k > Len(patterns) THEN [text |-> text, triggered |-> triggered]
  ELSE IF PiiSearch(patterns[k], text)
    THEN PiiPass(patterns, k + 1, PiiSub(patterns[k], text),
                 Append(triggered, S_PII \o NameChars(patterns[k])))
    ELSE PiiPass(patterns, k + 1, text, triggered)

\* step 2 of scan: the rules the topic pattern adds
TopicRule(matches) ==
  IF matches = << >> THEN << >>
  ELSE << S_Topic \o Join(S_Comma, Sorted(SeqRange(matches))) >>

TopicPass(engine, text) ==
  IF engine.topic_pattern = << >> THEN << >>
  ELSE TopicRule(TopicFindAll(text, engine.topic_pattern))

\* step 3 of scan runs only with a model and embeddings
SemanticActive(engine) ==
  engine.semantic_model /\ engine.forbidden_embeddings

\* a semantic check that fires at the threshold too
SemanticPassAtThreshold(engine, sim) ==
  IF SemanticActive(engine) /\ sim >= engine.semantic_threshold
    THEN << S_SemanticOpen \o Format2f(sim) \o << ")" >> >>
    ELSE << >>

\* step 3 of scan: the rules the semantic check adds; sim is the largest
\* cosine similarity the backend computes for the text, in hundredths
SemanticPass(engine, sim) ==
  IF SemanticActive(engine) /\ sim > engine.semantic_threshold
    THEN << S_SemanticOpen \o Format2f(sim) \o << ")" >> >>
    ELSE << >>

\* steps 2 and 3 of scan, after the PII pass returned pii
ScanAfterPii(engine, pii, sim) ==
  [ sanitized_prompt |-> pii.text,
    triggered_rules |->
      pii.triggered \o TopicPass(engine, pii.text) \o SemanticPass(engine, sim),
    semantic_score |-> IF SemanticActive(engine) THEN sim ELSE 0 ]

scan(engine, prompt, sim) ==
  ScanAfterPii(engine, PiiPass(engine.pii_patterns, 1, prompt, << >>), sim)

\* the passes of scan in the order in which it runs them: the loop over
\* pii_patterns (lines 132-138), the topic pattern (141-145) and the
\* semantic check (150-159); scan has no other pass
ScanSteps(engine) ==
  (IF engine.pii_patterns # << >> THEN << "pii" >> ELSE << >>)
  \o (IF engine.topic_pattern # << >> THEN << "topic" >> ELSE << >>)
  \o (IF SemanticActive(engine) THEN << "semantic" >> ELSE << >>)

\* the branch of validate that turns a lone "PII:" rule into a redaction
OnlyPii(reason, triggered) ==
  Contains(reason, S_PII) /\ Len(triggered) = 1

\* validate without line 111: a redaction keeps is_valid false
GuardrailResultInvalidRedaction(is_valid, sanitized, reason, only_pii) ==
  [ valid |-> is_valid,
    sanitized_text |-> sanitized,
    reason |-> IF is_valid THEN << >>
               ELSE IF only_pii THEN S_PiiRedacted
               ELSE reason,
    action |-> IF is_valid THEN "allowed"
               ELSE IF only_pii THEN "redacted"
               ELSE "blocked" ]

\* the GuardrailResult of validate: is_valid is false when a rule fired,
\* reason joins the rules, only_pii is the branch taken
GuardrailResult(is_valid, sanitized, reason, only_pii) ==
  [ valid |-> is_valid \/ only_pii,
    sanitized_text |-> sanitized,
    reason |-> IF is_valid THEN << >>
               ELSE IF only_pii THEN S_PiiRedacted
               ELSE reason,
    action |-> IF is_valid THEN "allowed"
               ELSE IF only_pii THEN "redacted"
               ELSE "blocked" ]

\* validate, after scan returned result
Verdict(result, reason) ==
  GuardrailResult(Len(result.triggered_rules) = 0,
                  result.sanitized_prompt,
                  reason,
                  /\ Len(result.triggered_rules) # 0
                  /\ OnlyPii(reason, result.triggered_rules))

ValidateScan(result) ==
  Verdict(result, Join(S_CommaSpace, result.triggered_rules))

validate(engine, text, sim) == ValidateScan(scan(engine, text, sim))

(***************************************************************************)
(* Profile descriptions.                                                   *)
(***************************************************************************)
W_fraud == << "f", "r", "a", "u", "d" >>
W_Fraud == << "F", "r", "a", "u", "d" >>
W_label == << "P", "I", "I", ":" >>
W_email == << "a", "@", "b", ".", "c", "o" >>
W_phone == << "5", "5", "5", "-", "5", "5", "5", "-", "5", "5", "5", "5" >>
W_ssn == << "5", "5", "5", "-", "5", "5", "-", "5", "5", "5", "5" >>
W_space == << " " >>
W_dot == << "." >>
W_hi == << "h", "i" >>

Config(name, pii, patterns, topics, block_list, injection, semantic) ==
  [ profile_name |-> name,
    pii |-> [enabled |-> pii, patterns |-> patterns],
    topics |-> [enabled |-> topics, block_list |-> block_list],
    injection |-> [enabled |-> injection],
    secrets |-> [enabled |-> FALSE],
    semantic_blocking |->
      [enabled |-> semantic, forbidden_intents |-> IF semantic THEN 1 ELSE 0,
       threshold |-> DefaultThreshold] ]

P_off == Config("off", FALSE, << >>, FALSE, << >>, FALSE, FALSE)
P_pii == Config("pii", TRUE, << "EMAIL" >>, FALSE, << >>, FALSE, FALSE)
P_pii_all ==
  Config("pii_all", TRUE, << "EMAIL", "PHONE", "SSN" >>, FALSE, << >>,
         TRUE, FALSE)
P_pii_rev ==
  Config("pii_rev", TRUE, << "PHONE", "CREDIT_CARD", "EMAIL" >>, FALSE, << >>,
         FALSE, FALSE)
P_topic == Config("topic", FALSE, << >>, TRUE, << W_fraud >>, FALSE, FALSE)
P_finance ==
  Config("finance", TRUE, << "EMAIL", "PHONE", "SSN" >>, TRUE, << W_fraud >>,
         TRUE, FALSE)
P_label ==
  Config("label", TRUE, << "EMAIL" >>, TRUE, << W_label, W_fraud >>,
         FALSE, FALSE)
P_semantic ==
  Config("semantic", TRUE, << "EMAIL" >>, TRUE, << W_fraud >>, TRUE, TRUE)

\* semantic blocking enabled with an empty forbidden_intents list
P_semantic_empty ==
  [P_semantic EXCEPT
     !.profile_name = "semantic_empty",
     !.semantic_blocking.forbidden_intents = 0]

\* semantic blocking with a threshold of its own
P_semantic_low ==
  [P_semantic EXCEPT
     !.profile_name = "semantic_low",
     !.semantic_blocking.threshold = DefaultThreshold - 1]

Profiles ==
  {P_off, P_pii, P_pii_all, P_pii_rev, P_topic, P_finance, P_label, P_semantic,
   P_semantic_empty, P_semantic_low}

\* the similarities the embedding backend may report, in hundredths:
\* below, at and above the threshold of the profiles
Similarities == {DefaultThreshold - 1, DefaultThreshold, DefaultThreshold + 1}

SimilaritiesOf(engine) == IF SemanticActive(engine) THEN Similarities ELSE {0}

\* what the backend does when scan calls it: encode and cosine_similarity
\* answer ("ok") or one of them throws ("raises")
Calls == {"ok", "raises"}

CallsOf(engine) == IF SemanticActive(engine) THEN Calls ELSE {"ok"}

\* lines 150-156 of scan are in no try block: what the backend throws
\* leaves scan, and validate with it (line 95)
ScanRaises(engine, call) == SemanticActive(engine) /\ call = "raises"

\* what the backend does while an engine of the profile is built
BackendsOf(config) ==
  IF config.semantic_blocking.enabled THEN Backends ELSE {"ok"}

(***************************************************************************)
(* State.                                                                  *)
(*   probe                one engine and one text, validated and then      *)
(*                        validated again on the sanitized text            *)
(*   guardrails           the gateway's current engine (main.py:124)       *)
(*   GUARDRAILS_PROFILE   the gateway's recorded profile (main.py:33)      *)
(*   USE_MOCK_LLM         the gateway's mock switch (main.py:32)           *)
(*   requests             the chat_completions requests of the gateway     *)
(*   switches             the outcome of the last switch_profile call      *)
(*   client               one SentinelOpenAI.create call                   *)
(*   stream               one _stream_wrapper generator and its sanitizer  *)
(*   scans                the validate calls in progress on one engine     *)
(*   chain                one SentinelRunnable and the step after it       *)
(***************************************************************************)
VARIABLES probe, guardrails, GUARDRAILS_PROFILE, USE_MOCK_LLM, requests,
          switches, client, stream, scans, chain

vars ==
  << probe, guardrails, GUARDRAILS_PROFILE, USE_MOCK_LLM, requests, switches,
     client, stream, scans, chain >>

gatewayVars ==
  << guardrails, GUARDRAILS_PROFILE, USE_MOCK_LLM, requests, switches >>

NoResult ==
  [valid |-> TRUE, sanitized_text |-> << >>, reason |-> << >>, action |-> "none"]

(***************************************************************************)
(* Texts: up to MaxFrags fragments of the lexicon, concatenated.           *)
(***************************************************************************)
MaxFrags == 2

\* a blocked phrase twice, in two letter cases
W_Fraud_fraud == W_Fraud \o W_space \o W_fraud

Lexicon ==
  {W_email, W_phone, W_ssn, W_space, W_dot, W_Fraud, W_label, W_Fraud_fraud}

RECURSIVE TextsOfLen(_)
TextsOfLen(n) ==
  IF n = 0 THEN {<< >>}
  ELSE {f \o t : f \in Lexicon, t \in TextsOfLen(n - 1)}

Texts == UNION {TextsOfLen(n) : n \in 0..MaxFrags}

(***************************************************************************)
(* The engine on its own: validate(text), then validate(sanitized_text).   *)
(***************************************************************************)
ProbeIdle ==
  [ pc |-> "off", engine |-> GuardrailsEngine(P_off, "ok"), text |-> << >>,
    backend |-> "ok", sim |-> 0, call |-> "ok", result |-> NoResult,
    again |-> NoResult ]

ProbeInit ==
  \E config \in Profiles :
    \E backend \in BackendsOf(config) :
      LET engine == GuardrailsEngine(config, backend)
      IN  \E text \in Texts :
            \E sim \in SimilaritiesOf(engine) :
              \E call \in CallsOf(engine) :
                probe = [ pc |-> "init", engine |-> engine, text |-> text,
                          backend |-> backend, sim |-> sim, call |-> call,
                          result |-> NoResult, again |-> NoResult ]

\* result = engine.validate(text), or the exception of the backend
Validate ==
  /\ probe.pc = "init"
  /\ probe' = IF ScanRaises(probe.engine, probe.call)
                THEN [probe EXCEPT !.pc = "raised"]
                ELSE [probe EXCEPT
                        !.pc = "validated",
                        !.result = validate(probe.engine, probe.text,
                                            probe.sim)]
  /\ UNCHANGED << gatewayVars, client, stream, scans, chain >>

\* again = engine.validate(result.sanitized_text)
Revalidate ==
  /\ probe.pc = "validated"
  /\ \E sim \in SimilaritiesOf(probe.engine) :
       probe' = [probe EXCEPT
                   !.pc = "revalidated",
                   !.again = validate(probe.engine,
                                      probe.result.sanitized_text, sim)]
  /\ UNCHANGED << gatewayVars, client, stream, scans, chain >>

(***************************************************************************)
(* GuardrailsFactory and the profile files it reads.  A path is the pair   *)
(* << directory, file name >>.                                             *)
(***************************************************************************)
NoPath == << "", "" >>

\* the body of a profile file: a YAML mapping, a YAML document that is not
\* a mapping (a schema error), or text yaml.safe_load cannot parse
FileAt(path) ==
  CASE path = << "configs", "finance.yaml" >> ->
         [kind |-> "mapping", config |-> P_finance]
    [] path = << "configs", "broken.yaml" >> ->
         [kind |-> "unparseable", config |-> P_off]
    [] path = << "configs/custom", "list.yaml" >> ->
         [kind |-> "not_mapping", config |-> P_off]

ExistingPaths ==
  { << "configs", "finance.yaml" >>, << "configs", "broken.yaml" >>,
    << "configs/custom", "list.yaml" >> }

\* os.path.exists(path)
PathExists(path) == path \in ExistingPaths

FileNames == {"finance.yaml", "list.yaml", "missing.yaml"}

\* the profiles whose description loads: the others fail to load or validate
LoadablePaths == {p \in ExistingPaths : FileAt(p).kind = "mapping"}

NoEngine ==
  [ profile_name |-> "none", pii_patterns |-> << >>, topic_pattern |-> << >>,
    semantic_model |-> FALSE, forbidden_embeddings |-> FALSE,
    semantic_threshold |-> 0 ]

\* a call GuardrailsEngine(...): the parameter the argument is bound to,
\* whether the argument is a mapping, and the argument (a profile
\* description, or a list of guardrail objects)
EngineCall(param, mapping, config, items) ==
  [param |-> param, mapping |-> mapping, config |-> config, items |-> items]

\* __init__(self, config) has no other parameter (TypeError), and reads
\* config.get("detectors", {}) first (AttributeError unless a mapping)
ConstructRaises(call) == call.param # "config" \/ ~call.mapping

Construct(call, backend) ==
  IF ConstructRaises(call)
    THEN [raised |-> TRUE, engine |-> NoEngine]
    ELSE [raised |-> FALSE, engine |-> GuardrailsEngine(call.config, backend)]

\* target_guardrails of create_engine: the enabled detectors in the order
\* the factory appends them
TargetGuardrails(config) ==
  (IF config.injection.enabled THEN << "PromptInjectionGuardrail" >> ELSE << >>)
  \o (IF config.secrets.enabled THEN << "SecretDetectionGuardrail" >> ELSE << >>)
  \o (IF config.topics.enabled THEN << "TopicGuardrail" >> ELSE << >>)
  \o (IF config.pii.enabled THEN << "PIIGuardrail" >> ELSE << >>)

\* GuardrailsEngine(guardrails=target_guardrails)
create_engine(config, backend) ==
  Construct(EngineCall("guardrails", FALSE, config, TargetGuardrails(config)),
            backend)

\* an except branch whose engine is built: a working engine with no PII,
\* topic or semantic rule
FallbackEngineBuilt(backend) ==
  [raised |-> FALSE, engine |-> GuardrailsEngine(P_off, backend)]

\* the except branch: GuardrailsEngine([PromptInjectionGuardrail()])
FallbackEngine(backend) ==
  Construct(EngineCall("config", FALSE, P_off, << "PromptInjectionGuardrail" >>),
            backend)

\* a load_from_file whose except branch returns an engine with no PII,
\* topic or semantic rule instead of raising
load_from_file_floor(path, backend) ==
  [raised |-> FALSE, engine |-> GuardrailsEngine(P_off, "ok")]

\* the try block raises when the file does not parse, when the parsed
\* document has no .get, or when create_engine raises
\* the try block: yaml.safe_load, config.get and create_engine
TryLoad(file, backend) ==
  IF file.kind = "mapping"
    THEN create_engine(file.config, backend)
    ELSE [raised |-> TRUE, engine |-> NoEngine]

\* the except branch after the try block ended as tried
LoadOrFallback(tried, backend) ==
  IF tried.raised THEN FallbackEngine(backend) ELSE tried

load_from_file(path, backend) ==
  LoadOrFallback(TryLoad(FileAt(path), backend), backend)

\* GuardrailsFactory.load(profile): the engine of a profile description
load(config, backend) ==
  Construct(EngineCall("config", TRUE, config, << >>), backend).engine

(***************************************************************************)
(* The gateway: switch_profile.                                            *)
(***************************************************************************)
\* the request bodies of POST /api/profiles/switch
SwitchData ==
  {[profile_path |-> p, profile_name |-> ""] :
     p \in {<< "configs", "broken.yaml" >>}}
  \cup {[profile_path |-> NoPath, profile_name |-> n] : n \in FileNames \cup {""}}

\* the path switch_profile loads: profile_path, or the profile_name looked
\* up under configs/ and then configs/custom/
ResolvePath(data) ==
  IF data.profile_path # NoPath THEN data.profile_path
  ELSE IF data.profile_name = "" THEN NoPath
  ELSE IF PathExists(<< "configs", data.profile_name >>)
    THEN << "configs", data.profile_name >>
    ELSE << "configs/custom", data.profile_name >>

\* the handler from its request body to its response and the two globals
\* a switch that assigns guardrails before the engine is built
HotSwapUnbuilt(profile_path, new_engine, engine, profile) ==
  IF new_engine.raised
    THEN [ status |-> 500, path |-> profile_path, load |-> "raised",
           guardrails |-> new_engine.engine, GUARDRAILS_PROFILE |-> profile ]
    ELSE [ status |-> 200, path |-> profile_path, load |-> "returned",
           guardrails |-> new_engine.engine,
           GUARDRAILS_PROFILE |-> profile_path ]

\* lines 164-171: the try block, load_from_file having ended as new_engine
HotSwap(profile_path, new_engine, engine, profile) ==
  IF new_engine.raised
    THEN [ status |-> 500, path |-> profile_path, load |-> "raised",
           guardrails |-> engine, GUARDRAILS_PROFILE |-> profile ]
    ELSE [ status |-> 200, path |-> profile_path, load |-> "returned",
           guardrails |-> new_engine.engine,
           GUARDRAILS_PROFILE |-> profile_path ]

\* lines 161-171
SwitchTo(profile_path, backend, engine, profile) ==
  IF profile_path = NoPath \/ ~PathExists(profile_path)
    THEN [ status |-> 404, path |-> profile_path, load |-> "none",
           guardrails |-> engine, GUARDRAILS_PROFILE |-> profile ]
    ELSE HotSwap(profile_path, load_from_file(profile_path, backend),
                 engine, profile)

switch_profile(data, backend, engine, profile) ==
  SwitchTo(ResolvePath(data), backend, engine, profile)

NoSwitch == [status |-> 0, path |-> NoPath, load |-> "none"]

SwitchProfile ==
  /\ guardrails # NoEngine
  /\ \E data \in SwitchData :
       \E backend \in (IF PathExists(ResolvePath(data))
                         THEN BackendsOf(FileAt(ResolvePath(data)).config)
                         ELSE {"ok"}) :
         \E out \in {switch_profile(data, backend, guardrails,
                                    GUARDRAILS_PROFILE)} :
           /\ guardrails' = out.guardrails
           /\ GUARDRAILS_PROFILE' = out.GUARDRAILS_PROFILE
           /\ switches' = [status |-> out.status, path |-> out.path,
                           load |-> out.load]
  /\ UNCHANGED << probe, USE_MOCK_LLM, requests, client, stream, scans, chain >>

\* GET /api/profiles: Path(GUARDRAILS_PROFILE).name
get_profiles == [active_profile |-> GUARDRAILS_PROFILE[2]]

(***************************************************************************)
(* The gateway: chat_completions.                                          *)
(***************************************************************************)
MaxRequests == 1

RequestIds == 1..MaxRequests

M_gpt == << "g", "p", "t", "-", "4", "o" >>
M_claude == << "c", "l", "a", "u", "d", "e", "-", "3" >>
M_gemini == << "g", "e", "m", "i", "n", "i", "-", "1" >>

ModelNames == {M_gpt, M_claude, M_gemini}

\* the name of a self-hosted model, which no vendor prefix matches
M_local == << "l", "l", "a", "m", "a" >>

\* model names of every kind: the names above, a name no prefix matches, a
\* name that holds a vendor's name without starting with it, and the empty
\* name
RouteNames ==
  ModelNames \cup {M_local, << "x", "-" >> \o M_claude, << >>}

Message(role, content) == [role |-> role, content |-> content]

W_fraud_email == W_fraud \o W_space \o W_email

\* the message lists of the requests: a plain prompt, a prompt with an
\* e-mail address, a prompt with a blocked phrase and an e-mail address, a
\* list with no user message, and the empty list
MessageLists ==
  { << Message("user", W_hi) >>,
    << Message("user", W_email) >>,
    << Message("system", W_hi), Message("user", W_fraud_email) >>,
    << Message("user", W_email), Message("assistant", W_hi) >>,
    << Message("system", W_email) >>,
    << >> }

\* the completion texts an upstream may return
OutputTexts == {W_hi, W_email, W_fraud}

\* next((m for m in reversed(messages) if m.role == "user"), None), as an
\* index, 0 for None
LastUserIndex(messages) ==
  LET users == {i \in 1..Len(messages) : messages[i].role = "user"}
  IN  IF users = {} THEN 0 ELSE Max(users)

\* step 1: the text that is scanned
InputText(messages) ==
  IF LastUserIndex(messages) # 0
    THEN messages[LastUserIndex(messages)].content
    ELSE IF Len(messages) > 0 THEN messages[Len(messages)].content ELSE << >>

\* step 4: last_user_message.content = result.sanitized_text
Reconstruct(messages, result) ==
  IF LastUserIndex(messages) # 0
    THEN [messages EXCEPT ![LastUserIndex(messages)].content =
                             result.sanitized_text]
    ELSE messages

HasPrefix(t, p) == Len(p) <= Len(t) /\ SubSeq(t, 1, Len(p)) = p

\* router.get_route(model): the wire-format family of a model name
get_route(model) ==
  IF HasPrefix(model, << "c", "l", "a", "u", "d", "e" >>) THEN "anthropic"
  ELSE IF HasPrefix(model, << "g", "e", "m", "i", "n", "i" >>) THEN "gemini"
  ELSE "openai"

RECURSIVE Flatten(_)
Flatten(ss) == IF Len(ss) = 0 THEN << >> ELSE ss[1] \o Flatten(Tail(ss))

SystemText(messages) ==
  LET sys == SelectSeq(messages, LAMBDA m : m.role = "system")
  IN  Flatten([i \in 1..Len(sys) |-> sys[i].content])

Turns(messages) == SelectSeq(messages, LAMBDA m : m.role # "system")

\* APIAdapter.openai_to_anthropic
openai_to_anthropic(payload) ==
  [ model |-> payload.model, system |-> SystemText(payload.messages),
    messages |-> Turns(payload.messages) ]

\* APIAdapter.openai_to_gemini
openai_to_gemini(payload) ==
  [ model |-> payload.model,
    system_instruction |-> SystemText(payload.messages),
    contents |->
      [i \in 1..Len(Turns(payload.messages)) |->
         [ role |-> IF Turns(payload.messages)[i].role = "assistant"
                      THEN "model" ELSE Turns(payload.messages)[i].role,
           parts |-> Turns(payload.messages)[i].content ]] ]

\* a step 5b that sends every payload but Gemini's in Anthropic's format
AdaptRequestConverting(adapter_type, payload) ==
  IF adapter_type = "gemini" THEN openai_to_gemini(payload)
  ELSE openai_to_anthropic(payload)

\* step 5b: the payload sent upstream
AdaptRequest(adapter_type, payload) ==
  IF adapter_type = "anthropic" THEN openai_to_anthropic(payload)
  ELSE IF adapter_type = "gemini" THEN openai_to_gemini(payload)
  ELSE payload

\* what the upstream call does: it throws (connection error, timeout), or
\* answers with a status and a body
\* the bodies of a non-200 answer: {"error": {"message": ..., "code": ...}}
\* with a code of the upstream's own ("nested") or with the code the gateway
\* uses for its blocks ("nested_policy_code"), {"error": "text"}, a JSON
\* object without "error", JSON that is no object, and text that is no JSON
ErrorBodies ==
  {"nested", "nested_policy_code", "error_string", "no_error_key",
   "non_object", "unparseable"}

\* a completion has the text of choices[0] (content) and the texts of the
\* choices after it (others): the request's n is sent on as it came
Outcome(kind, status, body, content, others) ==
  [ kind |-> kind, status |-> status, body |-> body, content |-> content,
    others |-> others ]

NoOutcome == Outcome("none", 0, "none", << >>, << >>)

\* the completions of more than one choice an upstream may return
ManyChoices == { << W_hi, << W_fraud >> >> }

UpstreamOutcomes ==
  {Outcome("exception", 0, "none", << >>, << >>)}
  \cup {Outcome("response", 200, "completion", c, << >>) :
          c \in OutputTexts \cup {<< >>}}
  \cup {Outcome("response", 200, "completion", m[1], m[2]) : m \in ManyChoices}
  \cup {Outcome("response", 200, b, << >>, << >>) :
          b \in {"no_choices", "unparseable"}}
  \cup {Outcome("response", 500, b, << >>, << >>) : b \in ErrorBodies}

ResponseData(kind, content, prefix, with_status, reason, body, code) ==
  [ kind |-> kind, content |-> content, others |-> << >>,
    message |-> [prefix |-> prefix, status |-> with_status,
                 reason |-> reason, body |-> body],
    code |-> code ]

NoResponse == ResponseData("none", << >>, "", 0, << >>, "", "")

\* the response of step 3
BlockedResponse(result) ==
  ResponseData("error", << >>, "Request blocked by security guardrails",
               0, result.reason, "", "security_policy_violation")

\* lines 314-328: the body of a non-200 upstream response as response_data
NormalizeError(status_code, body) ==
  CASE body = "nested" ->
         ResponseData("error", << >>, "", 0, << >>, "nested", "upstream")
    [] body = "nested_policy_code" ->
         ResponseData("error", << >>, "", 0, << >>, "nested_policy_code",
                      "security_policy_violation")
    [] body = "error_string" ->
         ResponseData("error", << >>, "Upstream Error", 0, << >>,
                      "error_string", "")
    [] body \in {"no_error_key", "non_object"} ->
         ResponseData("error", << >>, "Upstream Error", 0, << >>, body, "")
    [] body = "unparseable" ->
         ResponseData("error", << >>, "Upstream Error", status_code, << >>,
                      "unparseable", "")

\* APIAdapter.anthropic_to_openai, APIAdapter.gemini_to_openai: one
\* assistant message with the completion text
AdaptResponse(adapter_type, outcome) ==
  IF outcome.body = "completion"
    THEN ResponseData("completion", outcome.content, "", 0, << >>, "", "")
    ELSE ResponseData("other", << >>, "", 0, << >>, "", "")

\* lines 330-338: the body of a 200 upstream response as response_data; a
\* response of the OpenAI family is taken as it came, with all its choices
Adapted(adapter_type, outcome) ==
  IF adapter_type \in {"anthropic", "gemini"}
    THEN AdaptResponse(adapter_type, outcome)
  ELSE IF outcome.body = "completion"
    THEN [ResponseData("completion", outcome.content, "", 0, << >>, "", "")
            EXCEPT !.others = outcome.others]
  ELSE ResponseData("other", << >>, "", 0, << >>, "", "")

\* engine.validate_output(text): the same detector stack on a completion
validate_output(engine, text, sim) == validate(engine, text, sim)

GatewayFailed ==
  ResponseData("error", << >>, "Gateway Connection Failed", 0, << >>, "", "")

AuditRecord(original, sanitized, label, reason, status) ==
  [ original_prompt |-> original, sanitized_prompt |-> sanitized,
    verdict |-> [label |-> label, reason |-> reason, status |-> status] ]

\* lines 367-379: the audit task and the response
Answer(req, status, data, out_result) ==
  [req EXCEPT
     !.pc = "done",
     !.out_result = out_result,
     !.status = status,
     !.response = data,
     !.audits = Append(@, AuditRecord(req.input_text,
                                      req.result.sanitized_text,
                                      IF status = 200 THEN "PASSED"
                                                      ELSE "FAILED",
                                      << >>, status))]

\* lines 347-361: the completion was validated as out_result
OutputChecked(req, response_data, out_result) ==
  IF ~out_result.valid /\ out_result.action = "blocked"
    THEN Answer(req, 400,
                ResponseData("error", << >>,
                             "Response blocked by security guardrails", 0,
                             out_result.reason, "",
                             "security_policy_violation_output"),
                out_result)
  ELSE IF out_result.sanitized_text # response_data.content
    THEN Answer(req, 200,
                [response_data EXCEPT !.content = out_result.sanitized_text],
                out_result)
  ELSE Answer(req, 200, response_data, out_result)

\* output guardrails run by an engine that is not the one the request read
\* at its start
RespondOtherEngine(req, status_code, response_data, sim) ==
  IF /\ status_code = 200
     /\ response_data.kind = "completion"
     /\ response_data.content # << >>
    THEN OutputChecked(req, response_data,
                       validate_output(GuardrailsEngine(P_off, "ok"),
                                       response_data.content, sim))
    ELSE Answer(req, status_code, response_data, NoResult)

\* lines 340-379: output guardrails, the audit task and the response, for a
\* request whose try block reached status_code and response_data
Respond(req, status_code, response_data, sim) ==
  IF /\ status_code = 200
     /\ response_data.kind = "completion"
     /\ response_data.content # << >>
    THEN OutputChecked(req, response_data,
                       validate_output(req.guards, response_data.content, sim))
    ELSE Answer(req, status_code, response_data, NoResult)

\* line 347 is reached and validate_output raises: what the backend does
\* when the completion is scanned is call
OutputRaises(req, status_code, response_data, call) ==
  /\ status_code = 200
  /\ response_data.kind = "completion"
  /\ response_data.content # << >>
  /\ ScanRaises(req.guards, call)

\* an except branch that posts the payload once more
RespondFailedRetry(req) ==
  IF Len(req.sent) = 1
    THEN [req EXCEPT !.pc = "upstream", !.sent = Append(@, @[1])]
    ELSE [req EXCEPT
            !.pc = "done",
            !.status = 502,
            !.response = GatewayFailed,
            !.audits = Append(@, AuditRecord(req.input_text,
                                             req.result.sanitized_text,
                                             "FAILED", << >>, 502))]

\* the except branch of the try block: 502
RespondFailed(req) ==
  [req EXCEPT
     !.pc = "done",
     !.status = 502,
     !.response = GatewayFailed,
     !.audits = Append(@, AuditRecord(req.input_text,
                                      req.result.sanitized_text,
                                      "FAILED", << >>, 502))]

\* lines 340-365: the output guardrails inside the try block
Guarded(req, status_code, response_data, sim, call) ==
  IF OutputRaises(req, status_code, response_data, call)
    THEN RespondFailed(req)
    ELSE Respond(req, status_code, response_data, sim)

NewRequest ==
  [ pc |-> "new", model |-> << >>, messages |-> << >>, guards |-> NoEngine,
    input_text |-> << >>, result |-> NoResult, out_result |-> NoResult,
    sent |-> << >>, upstream |-> NoOutcome, status |-> 0,
    response |-> NoResponse, audits |-> << >> ]

S_MockOpen ==
  << "M", "o", "c", "k", " ", "R", "e", "s", "p", "o", "n", "s", "e", " ", "(" >>
S_MockMid ==
  << ")", ".", " ", "S", "a", "n", "i", "t", "i", "z", "e", "d", " ",
     "I", "n", "p", "u", "t", ":", " ", "'" >>
S_Quote == << "'" >>

\* lines 276-291: the mock completion
MockResponse(model, result) ==
  ResponseData("completion",
               S_MockOpen \o model \o S_MockMid \o result.sanitized_text
                 \o S_Quote,
               "", 0, << >>, "", "")

\* a blocked request whose sanitized payload is sent upstream all the same
BlockedForwarding(req) ==
  [req EXCEPT
     !.pc = "done",
     !.status = 400,
     !.response = BlockedResponse(req.result),
     !.sent = << AdaptRequest(get_route(req.model),
                              [model |-> req.model,
                               messages |-> Reconstruct(req.messages,
                                                        req.result)]) >>,
     !.audits = << AuditRecord(req.input_text, req.result.sanitized_text,
                               "BLOCKED", req.result.reason, 400) >>]

\* a blocked request audited with the original text in both fields
BlockedAuditOriginal(req) ==
  [req EXCEPT
     !.pc = "done",
     !.status = 400,
     !.response = BlockedResponse(req.result),
     !.audits = << AuditRecord(req.input_text, req.input_text,
                               "BLOCKED", req.result.reason, 400) >>]

\* lines 242-264: the request is blocked
Blocked(req) ==
  [req EXCEPT
     !.pc = "done",
     !.status = 400,
     !.response = BlockedResponse(req.result),
     !.audits = << AuditRecord(req.input_text, req.result.sanitized_text,
                               "BLOCKED", req.result.reason, 400) >>]

\* lines 266-311: the request goes on with its sanitized messages
Forward(req, mock, sim_out, call_out) ==
  IF mock
    THEN Guarded(req, 200, MockResponse(req.model, req.result), sim_out,
                 call_out)
    ELSE [req EXCEPT
            !.pc = "upstream",
            !.sent = << AdaptRequest(get_route(req.model),
                                     [model |-> req.model,
                                      messages |-> req.messages]) >>]

\* lines 242-311, the input having been validated as result
Validated(guards, mock, model, messages, input_text, result, sim_out, call_out) ==
  IF ~result.valid /\ result.action = "blocked"
    THEN Blocked([NewRequest EXCEPT
                    !.model = model, !.messages = messages,
                    !.guards = guards, !.input_text = input_text,
                    !.result = result])
    ELSE Forward([NewRequest EXCEPT
                    !.model = model,
                    !.messages = Reconstruct(messages, result),
                    !.guards = guards, !.input_text = input_text,
                    !.result = result],
                 mock, sim_out, call_out)

\* lines 227-311: the handler up to its answer (a blocked request, or a
\* mock completion) or up to its upstream call. guards is the engine
\* Depends(get_guardrails) hands to the request; sim and sim_out are the
\* similarities the backend reports for the input and the mock output, and
\* call_out is what the backend does when the mock output is scanned.
chat_completions(guards, mock, model, messages, sim, sim_out, call_out) ==
  Validated(guards, mock, model, messages, InputText(messages),
            validate(guards, InputText(messages), sim), sim_out, call_out)

\* the answer of the framework to a handler that raised
Unhandled ==
  ResponseData("error", << >>, "Internal Server Error", 0, << >>, "", "")

\* line 240 stands before the try block of line 273: what validate raises
\* leaves the handler, no task has been added, the framework answers 500
Raised(guards, model, messages) ==
  [NewRequest EXCEPT
     !.pc = "done", !.model = model, !.messages = messages,
     !.guards = guards, !.input_text = InputText(messages),
     !.status = 500, !.response = Unhandled]

\* the handler, call being what the backend does when the input is scanned
Received(guards, mock, model, messages, sims, calls) ==
  IF ScanRaises(guards, calls[1])
    THEN Raised(guards, model, messages)
    ELSE chat_completions(guards, mock, model, messages, sims[1], sims[2],
                          calls[2])

\* lines 306-379: the handler from the answer of its upstream call on
Resumed(req, outcome, sim, call) ==
  IF outcome.kind = "exception" THEN RespondFailed(req)
  ELSE IF outcome.status # 200
    THEN Respond(req, outcome.status,
                 NormalizeError(outcome.status, outcome.body), sim)
  ELSE IF outcome.body = "unparseable" THEN RespondFailed(req)
  ELSE Guarded(req, 200, Adapted(get_route(req.model), outcome), sim, call)

\* upstream is what the post of lines 305-310 did
chat_completions_resume(req, outcome, sim, call) ==
  Resumed([req EXCEPT !.upstream = outcome], outcome, sim, call)

\* get_guardrails
get_guardrails == guardrails

\* a request for a model of names arrives
ReceiveNamed(r, names) ==
  /\ requests[r].pc = "new"
  /\ \E messages \in MessageLists :
       \E model \in names :
         \E sims \in SimilaritiesOf(get_guardrails)
                       \X SimilaritiesOf(get_guardrails) :
           \E calls \in CallsOf(get_guardrails) \X CallsOf(get_guardrails) :
             requests' =
               [requests EXCEPT
                  ![r] = Received(get_guardrails, USE_MOCK_LLM, model,
                                  messages, sims, calls)]
  /\ UNCHANGED << probe, guardrails, GUARDRAILS_PROFILE, USE_MOCK_LLM,
                  switches, client, stream, scans, chain >>

ReceiveRequest(r) == ReceiveNamed(r, ModelNames)

ReceiveAnyName(r) == ReceiveNamed(r, RouteNames)

\* a request for the one model of the OpenAI family arrives
ReceiveOpenAI(r) == ReceiveNamed(r, {M_gpt})

UpstreamReturns(r) ==
  /\ requests[r].pc = "upstream"
  /\ \E outcome \in UpstreamOutcomes :
       \E sim \in SimilaritiesOf(requests[r].guards) :
         \E call \in CallsOf(requests[r].guards) :
           requests' =
             [requests EXCEPT
                ![r] = chat_completions_resume(requests[r], outcome, sim,
                                               call)]
  /\ UNCHANGED << probe, guardrails, GUARDRAILS_PROFILE, USE_MOCK_LLM,
                  switches, client, stream, scans, chain >>

\* the profiles a gateway is started with
StartupProfiles == {P_finance}

GatewayInit ==
  /\ \E config \in StartupProfiles :
       /\ guardrails = load(config, "ok")
       /\ GUARDRAILS_PROFILE = << "", config.profile_name >>
  /\ USE_MOCK_LLM \in BOOLEAN
  /\ requests = [r \in RequestIds |-> NewRequest]
  /\ switches = NoSwitch

\* a gateway started with a profile that has the semantic detector
SemanticGatewayInit ==
  /\ guardrails = load(P_semantic, "ok")
  /\ GUARDRAILS_PROFILE = << "", P_semantic.profile_name >>
  /\ USE_MOCK_LLM \in BOOLEAN
  /\ requests = [r \in RequestIds |-> NewRequest]
  /\ switches = NoSwitch

GatewayOff ==
  /\ guardrails = NoEngine
  /\ GUARDRAILS_PROFILE = NoPath
  /\ USE_MOCK_LLM = FALSE
  /\ requests = [r \in RequestIds |-> [NewRequest EXCEPT !.pc = "off"]]
  /\ switches = NoSwitch

(***************************************************************************)
(* SentinelOpenAI / SentinelAsyncOpenAI: create.  A message is   *)
(* a dict whose content is a string ("str"), a list of parts ("parts") or  *)
(* absent ("none").                                                        *)
(***************************************************************************)
Dict(role, kind, content) == [role |-> role, kind |-> kind, content |-> content]

ClientMessageLists ==
  { << Dict("user", "str", W_hi) >>,
    << Dict("system", "str", W_email), Dict("user", "str", W_fraud) >>,
    << Dict("user", "str", W_fraud_email), Dict("user", "str", W_email) >>,
    << Dict("user", "parts", W_fraud), Dict("user", "str", W_email) >>,
    << Dict("assistant", "none", << >>) >>,
    << >> }

\* the two wrappers: SentinelOpenAI and SentinelAsyncOpenAI
Wrappers == {"sync", "async"}

ClientOff ==
  [ pc |-> "off", wrapper |-> "sync", engine |-> NoEngine, given |-> << >>,
    messages |-> << >>, i |-> 1, calls |-> << >>, result |-> NoResult ]

ClientInit ==
  \E config \in StartupProfiles :
    \E messages \in ClientMessageLists :
      \E wrapper \in Wrappers :
        client = [ pc |-> "scanning", wrapper |-> wrapper,
                   engine |-> load(config, "ok"),
                   given |-> messages, messages |-> messages, i |-> 1,
                   calls |-> << >>, result |-> NoResult ]

\* engine.validate_async(text): the verdict of validate, awaited
validate_async(engine, text, sim) == validate(engine, text, sim)

\* self._engine.validate(msg["content"]), awaited as validate_async by the
\* async wrapper
ClientValidate(c, text, sim) ==
  IF c.wrapper = "async" THEN validate_async(c.engine, text, sim)
  ELSE validate(c.engine, text, sim)

\* a loop body that assigns the sanitized text before it looks at the
\* verdict
ScannedOverwriting(c, result) ==
  IF ~result.valid /\ result.action = "blocked"
    THEN [c EXCEPT !.pc = "raised", !.result = result,
                   !.messages[c.i].content = result.sanitized_text]
    ELSE [c EXCEPT
            !.messages[c.i].content = result.sanitized_text,
            !.result = result,
            !.i = c.i + 1]

\* one turn of the loop of create over messages[i]
\* messages[i] was validated as result
Scanned(c, result) ==
  IF ~result.valid /\ result.action = "blocked"
    THEN [c EXCEPT !.pc = "raised", !.result = result]
    ELSE [c EXCEPT
            !.messages[c.i].content = result.sanitized_text,
            !.result = result,
            !.i = c.i + 1]

create_scan(c, sim) ==
  IF c.messages[c.i].kind # "str" THEN [c EXCEPT !.i = c.i + 1]
  ELSE Scanned(c, ClientValidate(c, c.messages[c.i].content, sim))

\* self._client.chat.completions.create, after the loop
create_call(c) ==
  [c EXCEPT !.pc = "called", !.calls = Append(@, c.messages)]

ClientScan ==
  /\ client.pc = "scanning"
  /\ client.i <= Len(client.messages)
  /\ \E sim \in SimilaritiesOf(client.engine) :
       client' = create_scan(client, sim)
  /\ UNCHANGED << probe, gatewayVars, stream, scans, chain >>

ClientCall ==
  /\ client.pc = "scanning"
  /\ client.i > Len(client.messages)
  /\ client' = create_call(client)
  /\ UNCHANGED << probe, gatewayVars, stream, scans, chain >>

(***************************************************************************)
(* StreamSanitizer (sentinel.streaming): one pending buffer per session,   *)
(* scanned as a whole on every delta.                                      *)
(***************************************************************************)
\* the redaction-marker fragment
BlockMarker == << "[", "B", "L", "O", "C", "K", "E", "D", "]" >>

\* the release watermark: the length of the longest text a pattern of
\* bounded length matches, a phone number with its separators
Watermark == Len(W_phone)

\* the tail that is kept back: the length of the longest blocked phrase
TailLen(engine) ==
  Max({0} \cup {Len(engine.topic_pattern[j]) :
                  j \in 1..Len(engine.topic_pattern)})

NewSanitizer(engine) ==
  [engine |-> engine, pending |-> << >>, blocked |-> FALSE]

\* the number of characters up to the last word boundary that leaves tail
\* characters behind it, 0 when there is none
ReleasePoint(text, tail) ==
  Max({0} \cup {c \in 1..(Len(text) - tail) : WordBoundary(text, c + 1)})

\* an allowed or redacted pending text raw, text after the scan: when
\* pending is longer than the watermark, the scanned text is released up to
\* cut and the rest is kept
Release(san, raw, text, cut) ==
  IF Len(raw) > Watermark /\ cut > 0
    THEN [ san |-> [san EXCEPT !.pending = SubSeq(text, cut + 1, Len(text))],
           frags |-> << SubSeq(text, 1, cut) >> ]
    ELSE [ san |-> [san EXCEPT !.pending = raw], frags |-> << >> ]

\* the pending text raw was scanned as verdict
Processed(san, raw, verdict) ==
  IF ~verdict.valid /\ verdict.action = "blocked"
    THEN [ san |-> [san EXCEPT !.pending = << >>, !.blocked = TRUE],
           frags |-> << BlockMarker >> ]
    ELSE Release(san, raw, verdict.sanitized_text,
                 ReleasePoint(verdict.sanitized_text, TailLen(san.engine)))

\* process(delta): [san, frags], the sanitizer afterwards and the fragments
\* it yields
process(san, delta, sim) ==
  IF san.blocked THEN [san |-> san, frags |-> << >>]
  ELSE Processed(san, san.pending \o delta,
                 validate(san.engine, san.pending \o delta, sim))

\* what remains was scanned as verdict
Flushed(san, verdict) ==
  IF ~verdict.valid /\ verdict.action = "blocked"
    THEN [ san |-> [san EXCEPT !.pending = << >>, !.blocked = TRUE],
           frags |-> << BlockMarker >> ]
    ELSE [ san |-> [san EXCEPT !.pending = << >>],
           frags |-> IF verdict.sanitized_text = << >> THEN << >>
                     ELSE << verdict.sanitized_text >> ]

\* flush(): [san, frags]
flush(san, sim) ==
  IF san.blocked THEN [san |-> san, frags |-> << >>]
  ELSE Flushed(san, validate(san.engine, san.pending, sim))

(***************************************************************************)
(* SentinelOpenAI / SentinelAsyncOpenAI: _stream_wrapper.  fed is the text *)
(* of the deltas so far, out the contents of the chunks yielded, calls the *)
(* calls made on the sanitizer.                                            *)
(***************************************************************************)
MaxChunks == 3

W_fr == << "f", "r" >>
W_aud == << "a", "u", "d" >>

\* chunk.choices[0].delta.content of the chunks of the upstream: nothing,
\* and pieces of text, two of them the halves of a blocked phrase
Deltas == {<< >>, W_space, W_email, W_phone, W_Fraud, W_fr, W_aud}

StreamOff ==
  [ pc |-> "off", sanitizer |-> NewSanitizer(NoEngine), last_chunk |-> FALSE,
    chunks |-> 0, fed |-> << >>, out |-> << >>, calls |-> << >> ]

\* sanitizer = StreamSanitizer(self._engine); last_chunk = None
StreamInit ==
  \E config \in StartupProfiles :
    stream = [StreamOff EXCEPT
                !.pc = "open",
                !.sanitizer = NewSanitizer(load(config, "ok"))]

\* the loops of lines 73-75 and 79-81: every fragment is yielded
Yielded(st, done) ==
  [st EXCEPT !.sanitizer = done.san, !.out = @ \o done.frags]

\* the fragments are yielded, and the content of the chunk itself when
\* there is none
YieldedOrRaw(st, done, delta) ==
  [st EXCEPT !.sanitizer = done.san,
             !.out = IF done.frags = << >> THEN Append(@, delta)
                     ELSE @ \o done.frags]

\* a loop body that passes the chunk on as it came when process yielded
\* nothing for it
ChunkForwarding(st, delta, sim) ==
  IF delta = << >>
    THEN [st EXCEPT !.last_chunk = TRUE, !.chunks = @ + 1,
                    !.out = Append(@, << >>)]
    ELSE YieldedOrRaw([st EXCEPT !.last_chunk = TRUE, !.chunks = @ + 1,
                                 !.fed = @ \o delta,
                                 !.calls = Append(@, "process")],
                      process(st.sanitizer, delta, sim), delta)

\* lines 66-75: the body of the loop for one chunk
Chunk(st, delta, sim) ==
  IF delta = << >>
    THEN [st EXCEPT !.last_chunk = TRUE, !.chunks = @ + 1,
                    !.out = Append(@, << >>)]
    ELSE Yielded([st EXCEPT !.last_chunk = TRUE, !.chunks = @ + 1,
                            !.fed = @ \o delta,
                            !.calls = Append(@, "process")],
                 process(st.sanitizer, delta, sim))

\* lines 77-81: the stream ended
Ended(st, sim) ==
  IF st.last_chunk
    THEN Yielded([st EXCEPT !.pc = "ended", !.calls = Append(@, "flush")],
                 flush(st.sanitizer, sim))
    ELSE [st EXCEPT !.pc = "ended"]

\* a wrapper that flushes in a finally clause
ClosedFlushing(st, pc) ==
  Yielded([st EXCEPT !.pc = pc, !.calls = Append(@, "flush")],
          flush(st.sanitizer, 0))

\* the generator is closed at a yield, or the iteration of the upstream
\* raises: nothing after the loop runs
Closed(st, pc) == [st EXCEPT !.pc = pc]

StreamChunk ==
  /\ stream.pc = "open"
  /\ stream.chunks < MaxChunks
  /\ \E delta \in Deltas :
       \E sim \in SimilaritiesOf(stream.sanitizer.engine) :
         stream' = Chunk(stream, delta, sim)
  /\ UNCHANGED << probe, gatewayVars, client, scans, chain >>

StreamEnd ==
  /\ stream.pc = "open"
  /\ \E sim \in SimilaritiesOf(stream.sanitizer.engine) :
       stream' = Ended(stream, sim)
  /\ UNCHANGED << probe, gatewayVars, client, scans, chain >>

\* the consumer stops reading: close() of the generator, cancellation of
\* the task that iterates
StreamAbandon ==
  /\ stream.pc = "open"
  /\ stream' = Closed(stream, "abandoned")
  /\ UNCHANGED << probe, gatewayVars, client, scans, chain >>

\* the upstream raises in the middle of the stream
StreamFail ==
  /\ stream.pc = "open"
  /\ stream' = Closed(stream, "failed")
  /\ UNCHANGED << probe, gatewayVars, client, scans, chain >>

(***************************************************************************)
(* Calls of validate or validate_async on one engine, each a run of scan   *)
(* (engine.py:124-167) with its own locals; the runs interleave between    *)
(* the passes and between the turns of the PII loop.                       *)
(***************************************************************************)
MaxCalls == 2

CallIds == 1..MaxCalls

\* a safe text, a text with an e-mail address, and a text with a blocked
\* phrase and an e-mail address
ScanTexts == {W_hi, W_email, W_fraud_email}

NoCall ==
  [ pc |-> "idle", text |-> << >>, overlaps |-> FALSE,
    k |-> 1, sanitized_prompt |-> << >>, triggered |-> << >>, sim |-> 0,
    result |-> NoResult ]

ScansOff ==
  [pc |-> "off", engine |-> NoEngine, calls |-> [i \in CallIds |-> NoCall]]

ScansInit ==
  \E config \in {P_semantic} :
    scans = [ pc |-> "on", engine |-> load(config, "ok"),
              calls |-> [i \in CallIds |-> NoCall] ]

\* the call is between its entry and its return
InFlight(c) == c.pc \in {"pii", "topic", "semantic", "return"}

\* lines 128-130: the locals of a new run of scan
Called(sc, i, text) ==
  [sc EXCEPT
     !.calls[i] =
       [NoCall EXCEPT
          !.pc = "pii", !.text = text,
          !.sanitized_prompt = text,
          !.overlaps = \E j \in CallIds : InFlight(sc.calls[j])]]

\* lines 134-138 have run for pattern k, with the outcome pii
PiiTurned(sc, i, pii) ==
  [sc EXCEPT
     !.calls[i].sanitized_prompt = pii.text,
     !.calls[i].triggered = pii.triggered,
     !.calls[i].k = @ + 1]

\* a turn of the loop that takes the pattern it has used off the list of
\* the engine
PiiTurnConsuming(sc, i) ==
  IF sc.calls[i].k > Len(sc.engine.pii_patterns)
    THEN [sc EXCEPT !.calls[i].pc = "topic"]
    ELSE [PiiTurned(sc, i,
                    PiiPass(<< sc.engine.pii_patterns[sc.calls[i].k] >>, 1,
                            sc.calls[i].sanitized_prompt,
                            sc.calls[i].triggered))
            EXCEPT !.engine.pii_patterns = Tail(@), !.calls[i].k = 1]

\* line 133: one turn of the loop over self.pii_patterns, or its end
PiiTurn(sc, i) ==
  IF sc.calls[i].k > Len(sc.engine.pii_patterns)
    THEN [sc EXCEPT !.calls[i].pc = "topic"]
    ELSE PiiTurned(sc, i,
                   PiiPass(<< sc.engine.pii_patterns[sc.calls[i].k] >>, 1,
                           sc.calls[i].sanitized_prompt,
                           sc.calls[i].triggered))

\* lines 141-145
TopicTurn(sc, i) ==
  [sc EXCEPT
     !.calls[i].pc = "semantic",
     !.calls[i].triggered =
       @ \o TopicPass(sc.engine, sc.calls[i].sanitized_prompt)]

\* lines 150-161: sim and call are what the backend answers for the text
SemanticTurn(sc, i, sim, call) ==
  IF ScanRaises(sc.engine, call)
    THEN [sc EXCEPT !.calls[i].pc = "raised"]
    ELSE [sc EXCEPT
            !.calls[i].pc = "return",
            !.calls[i].sim = sim,
            !.calls[i].triggered = @ \o SemanticPass(sc.engine, sim)]

\* lines 163-167 and 95-122: scan returns, validate builds its verdict
Returned(sc, i) ==
  [sc EXCEPT
     !.calls[i].pc = "done",
     !.calls[i].result =
       ValidateScan([ sanitized_prompt |-> sc.calls[i].sanitized_prompt,
                      triggered_rules |-> sc.calls[i].triggered,
                      semantic_score |-> sc.calls[i].sim ])]

ScanCall(i) ==
  /\ scans.pc = "on"
  /\ scans.calls[i].pc = "idle"
  /\ \E text \in ScanTexts :
       scans' = Called(scans, i, text)
  /\ UNCHANGED << probe, gatewayVars, client, stream, chain >>

ScanPii(i) ==
  /\ scans.calls[i].pc = "pii"
  /\ scans' = PiiTurn(scans, i)
  /\ UNCHANGED << probe, gatewayVars, client, stream, chain >>

ScanTopics(i) ==
  /\ scans.calls[i].pc = "topic"
  /\ scans' = TopicTurn(scans, i)
  /\ UNCHANGED << probe, gatewayVars, client, stream, chain >>

ScanSemantic(i) ==
  /\ scans.calls[i].pc = "semantic"
  /\ \E sim \in SimilaritiesOf(scans.engine) :
       \E call \in CallsOf(scans.engine) :
         scans' = SemanticTurn(scans, i, sim, call)
  /\ UNCHANGED << probe, gatewayVars, client, stream, chain >>

ScanReturn(i) ==
  /\ scans.calls[i].pc = "return"
  /\ scans' = Returned(scans, i)
  /\ UNCHANGED << probe, gatewayVars, client, stream, chain >>

(***************************************************************************)
(* SentinelRunnable (integrations/langchain.py) in a chain                 *)
(* sentinel | next_step.  An input is a string, a dict, a message or       *)
(* another object; an absent or empty dict value is << >>.                 *)
(***************************************************************************)
Input(kind, content, text, query) ==
  [kind |-> kind, content |-> content, text |-> text, query |-> query]

Inputs ==
  { Input("str", t, << >>, << >>) : t \in {W_hi, W_email, W_fraud} }
  \cup { Input("dict", W_email, W_fraud, << >>),
          Input("dict", << >>, W_fraud_email, << >>),
          Input("dict", << >>, << >>, W_fraud),
          Input("dict", << >>, << >>, W_hi),
          Input("message", W_email, << >>, << >>),
          Input("message", W_fraud, << >>, << >>),
          Input("other", W_phone, << >>, << >>) }

\* str(input) of a dict with the one key 'query'
S_ReprOpen == << "{", "'", "q", "u", "e", "r", "y", "'", ":", " ", "'" >>
S_ReprClose == << "'", "}" >>

\* lines 52-60
to_string(input) ==
  CASE input.kind = "str" -> input.content
    [] input.kind = "dict" ->
         IF input.content # << >> THEN input.content
         ELSE IF input.text # << >> THEN input.text
         ELSE S_ReprOpen \o input.query \o S_ReprClose
    [] input.kind = "message" -> input.content
    [] OTHER -> input.content

NoOutput ==
  [ sanitized_text |-> << >>, original_input |-> Input("none", << >>, << >>, << >>),
    metadata |-> [reason |-> << >>, action |-> "none"] ]

ChainOff ==
  [ pc |-> "off", engine |-> NoEngine, check_input |-> TRUE,
    input |-> Input("none", << >>, << >>, << >>), called |-> "none", sim |-> 0,
    output |-> NoOutput, passed |-> << >> ]

ChainInit ==
  \E config \in {P_finance, P_semantic} :
    \E check_input \in BOOLEAN :
      \E input \in Inputs :
        chain = [ChainOff EXCEPT
                   !.pc = "ready", !.engine = load(config, "ok"),
                   !.check_input = check_input, !.input = input]

\* an invoke that returns its mapping whatever the verdict is
InvokedReturning(ch, result) ==
  [ch EXCEPT
     !.pc = "returned",
     !.output = [ sanitized_text |-> result.sanitized_text,
                  original_input |-> ch.input,
                  metadata |-> [reason |-> result.reason,
                                action |-> result.action] ]]

\* lines 40-50, the engine having answered result
Invoked(ch, result) ==
  IF ~result.valid /\ result.action = "blocked"
    THEN [ch EXCEPT !.pc = "raised"]
    ELSE [ch EXCEPT
            !.pc = "returned",
            !.output = [ sanitized_text |-> result.sanitized_text,
                         original_input |-> ch.input,
                         metadata |-> [reason |-> result.reason,
                                       action |-> result.action] ]]

\* line 38: the method of the engine that is called
Method(ch) == IF ch.check_input THEN "validate" ELSE "validate_output"

\* lines 33-50; what the engine raises leaves invoke as it is
invoke(ch, sim, call) ==
  IF ScanRaises(ch.engine, call)
    THEN [ch EXCEPT !.pc = "failed", !.called = Method(ch)]
    ELSE Invoked([ch EXCEPT !.called = Method(ch), !.sim = sim],
                 IF ch.check_input
                   THEN validate(ch.engine, to_string(ch.input), sim)
                   ELSE validate_output(ch.engine, to_string(ch.input), sim))

Invoke ==
  /\ chain.pc = "ready"
  /\ \E sim \in SimilaritiesOf(chain.engine) :
       \E call \in CallsOf(chain.engine) :
         chain' = invoke(chain, sim, call)
  /\ UNCHANGED << probe, gatewayVars, client, stream, scans >>

\* the step after the runnable is invoked with what the runnable returned
NextStep ==
  /\ chain.pc = "returned"
  /\ chain' = [chain EXCEPT !.pc = "passed", !.passed = << chain.output >>]
  /\ UNCHANGED << probe, gatewayVars, client, stream, scans >>

(***************************************************************************)
(* Properties.                                                             *)
(***************************************************************************)
Blocked_(result) == ~result.valid /\ result.action = "blocked"

\* C1: a request of the gateway whose input validation returned
\* action=blocked has sent nothing upstream and has ended with status 400
\* and code security_policy_violation; a create call of the client wrapper
\* in which a message was blocked has raised and has not called the
\* underlying client.
C1_BlockedNeverForwarded ==
  /\ \A r \in RequestIds :
       Blocked_(requests[r].result) =>
         /\ requests[r].sent = << >>
         /\ requests[r].pc = "done"
         /\ requests[r].status = 400
         /\ requests[r].response.kind = "error"
         /\ requests[r].response.code = "security_policy_violation"
  /\ Blocked_(client.result) =>
       /\ client.pc = "raised"
       /\ client.calls = << >>

\* a blocked request whose text also held an e-mail address the PII pass
\* had redacted
C1_Witness ==
  \E r \in RequestIds :
    /\ Blocked_(requests[r].result)
    /\ requests[r].result.sanitized_text # requests[r].input_text
    /\ requests[r].pc = "done"

\* the matches topic_pattern.findall would find in the text as given
TopicMatchesIn(engine, text) ==
  IF engine.topic_pattern = << >> THEN << >>
  ELSE TopicFindAll(text, engine.topic_pattern)

\* C2: for an engine with a non-empty block list, a text that holds a
\* case-insensitive whole-word match of a blocked phrase is validated as
\* valid = false, action = blocked.
C2_BlockedPhraseBlocks ==
  ( /\ probe.pc = "validated"
    /\ TopicMatchesIn(probe.engine, probe.text) # << >> )
  => Blocked_(probe.result)

\* the rules each pass of scan adds for the probe's text
ProbePii == PiiPass(probe.engine.pii_patterns, 1, probe.text, << >>)

ProbeTopic == TopicPass(probe.engine, ProbePii.text)

ProbeSemantic == SemanticPass(probe.engine, probe.sim)

\* C3: when only PII rules fire on a text (one or several pattern names, no
\* topic and no semantic rule), validate returns valid = true,
\* action = redacted and the PII-substituted text.
C3_OnlyPiiRedacts ==
  ( /\ probe.pc = "validated"
    /\ ProbePii.triggered # << >>
    /\ ProbeTopic = << >>
    /\ ProbeSemantic = << >> )
  => /\ probe.result.valid
     /\ probe.result.action = "redacted"
     /\ probe.result.sanitized_text = ProbePii.text

\* s as a whole matches the EMAIL pattern
FullEmail(s) == Len(s) > 0 /\ EmailMatchAt(s, 1) = Len(s)

\* the e-mail-shaped substrings of t: they start with a character of the
\* local part, end with a letter and hold an @ in between
EmailShapedIn(t) ==
  { SubSeq(t, ij[1], ij[2]) :
      ij \in { ij \in (1..Len(t)) \X (1..Len(t)) :
                 /\ ij[1] < ij[2]
                 /\ t[ij[1]] \in EmailLocalChars
                 /\ t[ij[2]] \in Letters
                 /\ \E k \in (ij[1] + 1)..(ij[2] - 1) : t[k] = "@"
                 /\ FullEmail(SubSeq(t, ij[1], ij[2])) } }

EmailEnabled(engine) ==
  \E k \in 1..Len(engine.pii_patterns) : engine.pii_patterns[k] = "EMAIL"

WellFormed(result) ==
  /\ result.action \in {"allowed", "redacted", "blocked"}
  /\ ~result.valid <=> result.action = "blocked"

\* C5: every verdict of validate is well-formed: when no rule fired it is
\* valid, allowed, with an empty reason and the text as given; valid is
\* false exactly when the action is blocked; the action is one of allowed,
\* redacted, blocked.
C5_VerdictWellFormed ==
  /\ probe.pc \in {"validated", "revalidated"} =>
       /\ WellFormed(probe.result)
       /\ (ProbePii.triggered \o ProbeTopic \o ProbeSemantic = << >>) =>
            /\ probe.result.valid
            /\ probe.result.action = "allowed"
            /\ probe.result.reason = << >>
            /\ probe.result.sanitized_text = probe.text
  /\ probe.pc = "revalidated" => WellFormed(probe.again)

\* a redaction, validated again
C5_Witness ==
  /\ probe.pc = "revalidated"
  /\ probe.result.action = "redacted"
  /\ probe.again.action = "allowed"

\* the PII pass of the engine of request r over its input text
RequestPii(r) ==
  PiiPass(requests[r].guards.pii_patterns, 1, requests[r].input_text, << >>)

\* C6: the sanitized_text of a verdict is the output of the PII pass alone
\* (the topic and semantic passes leave the text as it is); for a blocked
\* request it is not the original text when PII was present, and it is the
\* sanitized_prompt of the audit record of the request.
C6_BlockedTextIsPiiRedacted ==
  \A r \in RequestIds :
    requests[r].pc \in {"upstream", "done"} =>
      /\ requests[r].result.sanitized_text = RequestPii(r).text
      /\ Blocked_(requests[r].result) =>
           /\ RequestPii(r).triggered # << >> =>
                requests[r].result.sanitized_text # requests[r].input_text
           /\ Len(requests[r].audits) = 1
           /\ requests[r].audits[1].sanitized_prompt
                = requests[r].result.sanitized_text

\* a request blocked for its phrase, audited with its e-mail address
\* replaced
C6_Witness ==
  \E r \in RequestIds :
    /\ Blocked_(requests[r].result)
    /\ requests[r].input_text = W_fraud_email
    /\ requests[r].audits[1].sanitized_prompt
         = W_fraud \o W_space \o Placeholder("EMAIL")

\* C7: validating the sanitized text of a verdict again redacts nothing
\* more: the sanitized text holds no match of an enabled PII pattern and
\* the second verdict returns it as it is.
C7_RedactionIdempotent ==
  probe.pc = "revalidated" =>
    /\ \A k \in 1..Len(probe.engine.pii_patterns) :
         ~PiiSearch(probe.engine.pii_patterns[k], probe.result.sanitized_text)
    /\ probe.again.sanitized_text = probe.result.sanitized_text

\* a step that is a call of switch_profile for a profile whose description
\* does not load
FailingSwitch ==
  /\ switches' # switches \/ guardrails' # guardrails
       \/ GUARDRAILS_PROFILE' # GUARDRAILS_PROFILE
  /\ switches'.path \notin LoadablePaths

C9_FallbackEngineReturned ==
  switches.path \in ExistingPaths \ LoadablePaths =>
    /\ switches.load = "returned"
    /\ switches.status = 200

\* the engines __init__ returns
ConstructedEngines ==
  { GuardrailsEngine(config, backend) :
      config \in Profiles, backend \in Backends }

ReturnedTexts(response) ==
  {response.content} \cup {response.others[i] : i \in DOMAIN response.others}

\* validate_output lets the text through as it is
PassesOutput(engine, text) ==
  \E sim \in SimilaritiesOf(engine) :
    /\ ~Blocked_(validate_output(engine, text, sim))
    /\ validate_output(engine, text, sim).sanitized_text = text

\* C14: a completion the gateway returns with status 200 was validated by
\* the request's engine: the text of the first choice is the sanitized text
\* of a verdict that is not blocked, and every other text returned is one
\* the engine lets through; a completion validated as blocked is answered
\* with status 400 and a policy-violation error and no text.
C14_OutputValidated ==
  \A r \in RequestIds :
    requests[r].pc = "done" =>
      /\ Blocked_(requests[r].out_result) =>
            /\ requests[r].status = 400
            /\ requests[r].response.kind = "error"
            /\ requests[r].response.code = "security_policy_violation_output"
            /\ ReturnedTexts(requests[r].response) = {<< >>}
      /\ (requests[r].status = 200 /\ requests[r].response.kind = "completion")
            => /\ requests[r].response.content # << >> =>
                    /\ requests[r].out_result # NoResult
                    /\ ~Blocked_(requests[r].out_result)
                    /\ requests[r].response.content =
                         requests[r].out_result.sanitized_text
               /\ \A t \in ReturnedTexts(requests[r].response) \ {<< >>} :
                    PassesOutput(requests[r].guards, t)

\* the request was blocked by the guardrails, on its input or on its output
GuardrailsBlocked(req) == Blocked_(req.result) \/ Blocked_(req.out_result)

\* C17: the response to a request the guardrails blocked carries the code
\* security_policy_violation, and the response to a request that ended in a
\* transport failure or an upstream error does not carry it.
C17_BlockCodeDistinct ==
  \A r \in RequestIds :
    requests[r].pc = "done" =>
      /\ GuardrailsBlocked(requests[r]) =>
            requests[r].response.code = "security_policy_violation"
      /\ (~GuardrailsBlocked(requests[r]) /\ requests[r].status # 200) =>
            requests[r].response.code # "security_policy_violation"

\* a connection error or a timeout of the post, or a 200 answer whose body
\* is not JSON
NetworkFailure(outcome) ==
  \/ outcome.kind = "exception"
  \/ outcome.kind = "response" /\ outcome.status = 200
       /\ outcome.body = "unparseable"

\* C18: a request posts at most one payload upstream and never posts again
\* once it has; a request whose post failed at the network level ends with
\* status 502 and an error message, having posted once.
C18_OneCallNoRetry ==
  /\ [](\A r \in RequestIds :
          /\ Len(requests[r].sent) <= 1
          /\ NetworkFailure(requests[r].upstream) =>
                /\ requests[r].pc = "done"
                /\ requests[r].status = 502
                /\ requests[r].response.kind = "error"
                /\ requests[r].response.message.prefix =
                     "Gateway Connection Failed"
                /\ Len(requests[r].sent) = 1)
  /\ [][ \A r \in RequestIds :
            requests[r].sent # << >> =>
              requests'[r].sent = requests[r].sent ]_vars

\* a request whose post raised and that was answered 502
C18_Witness ==
  \E r \in RequestIds :
    /\ requests[r].upstream.kind = "exception"
    /\ requests[r].status = 502
    /\ Len(requests[r].sent) = 1

\* C19: the response to a request whose upstream answered with a status
\* other than 200 is an error object with a message and a code, whatever
\* the body was; for a body that is not JSON the message names the status;
\* the output guardrails did not run.
C19_ErrorsNormalized ==
  \A r \in RequestIds :
    ( /\ requests[r].pc = "done"
      /\ requests[r].upstream.kind = "response"
      /\ requests[r].upstream.status # 200 ) =>
        /\ requests[r].response.kind = "error"
        /\ requests[r].response.message.body = requests[r].upstream.body
        /\ requests[r].response.code # ""
        /\ requests[r].upstream.body = "unparseable" =>
              requests[r].response.message.status = requests[r].upstream.status
        /\ requests[r].out_result = NoResult
        /\ requests[r].status = requests[r].upstream.status

\* the engine without its semantic detector
WithoutSemantic(engine) ==
  [engine EXCEPT !.semantic_model = FALSE, !.forbidden_embeddings = FALSE,
                 !.semantic_threshold = 0]

\* C15: a validate call during which the embedding backend throws returns
\* all the same, with the verdict of the other detectors.
C15_BackendFailureIsNoOp ==
  (probe.pc # "init" /\ ScanRaises(probe.engine, probe.call)) =>
    /\ probe.pc # "raised"
    /\ probe.result = validate(WithoutSemantic(probe.engine), probe.text, 0)

\* the profile an engine was built from
ConfigOf(engine) ==
  CHOOSE config \in Profiles : config.profile_name = engine.profile_name

\* the detectors a profile enables, in the order PII, topics, secrets,
\* injection, semantic; the semantic one counts when the engine has it
DetectorsInOrder(config, engine) ==
  (IF config.pii.enabled THEN << "pii" >> ELSE << >>)
  \o (IF config.topics.enabled THEN << "topic" >> ELSE << >>)
  \o (IF config.secrets.enabled THEN << "secret" >> ELSE << >>)
  \o (IF config.injection.enabled THEN << "injection" >> ELSE << >>)
  \o (IF SemanticActive(engine) THEN << "semantic" >> ELSE << >>)

\* C16: a scan runs the detectors its profile enables in the order PII,
\* topics, secrets, injection, semantic; only the PII pass changes the text,
\* and the rules of the later passes are those of the text it returned.
C16_FixedDetectorOrder ==
  probe.pc = "validated" =>
    /\ ScanSteps(probe.engine) =
         DetectorsInOrder(ConfigOf(probe.engine), probe.engine)
    /\ scan(probe.engine, probe.text, probe.sim).sanitized_prompt =
         ProbePii.text
    /\ scan(probe.engine, probe.text, probe.sim).triggered_rules =
         ProbePii.triggered \o TopicPass(probe.engine, ProbePii.text)
           \o SemanticPass(probe.engine, probe.sim)

\* str.lower() of a text
LowerText(t) == [i \in 1..Len(t) |-> ToLower(t[i])]

\* the matches the topic rule of the probe lists
ProbeMatches ==
  SeqRange(TopicMatchesIn(probe.engine, ProbePii.text))

\* C20: the reason of a blocked verdict joins the rules that fired in the
\* order PII, topic, semantic; the topic rule names each configured phrase
\* at most once, whatever the letter case of its occurrences, and the
\* reason mentions every phrase that matched.
C20_ReasonNamesPhrasesOnce ==
  (probe.pc = "validated" /\ Blocked_(probe.result)) =>
    /\ probe.result.reason =
         Join(S_CommaSpace, ProbePii.triggered \o ProbeTopic \o ProbeSemantic)
    /\ \A p \in SeqRange(probe.engine.topic_pattern) :
         /\ Cardinality({m \in ProbeMatches : LowerText(m) = LowerText(p)}) <= 1
         /\ (\E m \in ProbeMatches : LowerText(m) = LowerText(p)) =>
              Contains(LowerText(probe.result.reason), LowerText(p))

\* the text the consumer of the stream has received
StreamOutput == Flatten(stream.out)

\* the number of marker fragments yielded
Markers == Cardinality({i \in 1..Len(stream.out) : stream.out[i] = BlockMarker})

\* the stream's output is the outcome verdict of the whole text
MatchesVerdict(verdict) ==
  IF Blocked_(verdict)
    THEN Markers = 1
    ELSE Markers = 0 /\ StreamOutput = verdict.sanitized_text

\* C11: when a stream has ended, what process and flush yielded for its
\* deltas is the outcome of validate on their concatenation: the sanitized
\* text when that is allowed or redacted, one block marker when it is
\* blocked.
C11_StreamingEquivalence ==
  stream.pc = "ended" =>
    \E sim \in SimilaritiesOf(stream.sanitizer.engine) :
      MatchesVerdict(validate(stream.sanitizer.engine, stream.fed, sim))

\* C12: a session that detected a blocked verdict has yielded one marker
\* fragment, and from then on every delta is consumed and nothing more of
\* the text reaches the consumer, from process or from flush; the output of
\* a stream never holds a whole-word match of a blocked phrase.
C12_BlockedStaysSuppressed ==
  /\ [](/\ Markers <= 1
        /\ stream.sanitizer.blocked => Markers = 1
        /\ TopicMatchesIn(stream.sanitizer.engine, StreamOutput) = << >>)
  /\ [][ stream.sanitizer.blocked =>
            /\ stream'.sanitizer = stream.sanitizer
            /\ Flatten(stream'.out) = Flatten(stream.out) ]_vars

\* a phrase split over two deltas was blocked, a delta with an e-mail
\* address was consumed afterwards and the stream has ended
C12_Witness ==
  /\ stream.pc = "ended"
  /\ stream.fed = W_fr \o W_aud \o W_email
  /\ stream.calls = << "process", "process", "process", "flush" >>
  /\ stream.out = << BlockMarker >>

\* the positions of the flush calls among the calls on the sanitizer
FlushCalls == {i \in 1..Len(stream.calls) : stream.calls[i] = "flush"}

\* flush was called once, after every process call
FlushedLast == FlushCalls = {Len(stream.calls)} /\ Len(stream.calls) > 0

\* a stream that is closed or fails yields nothing more and leaves the
\* sanitizer as it was
NothingReleasedOnClose ==
  (stream.pc = "open" /\ stream'.pc \in {"abandoned", "failed"}) =>
    /\ stream'.out = stream.out
    /\ stream'.calls = stream.calls
    /\ stream'.sanitizer = stream.sanitizer

\* C13 as stated: flush is called exactly once when the upstream ends, after
\* every process call; it is not called while the stream is open, nor when
\* the consumer abandons the stream or the upstream fails, and nothing
\* buffered is released then.
C13_FlushExactlyOnceAtEnd ==
  /\ [](/\ stream.pc = "ended" => FlushedLast
        /\ stream.pc \in {"open", "abandoned", "failed"} => FlushCalls = {})
  /\ [][NothingReleasedOnClose]_vars

\* C13, amended: flush is called exactly once, after every process call,
\* when the upstream ends having delivered a chunk; for an upstream that
\* ends without a chunk no call is made on the sanitizer at all.
C13_FlushOnceIfAnyChunk ==
  /\ [](/\ (stream.pc = "ended" /\ stream.last_chunk) => FlushedLast
        /\ (stream.pc = "ended" /\ ~stream.last_chunk) =>
             stream.calls = << >> /\ stream.out = << >>
        /\ stream.pc \in {"open", "abandoned", "failed"} => FlushCalls = {})
  /\ [][NothingReleasedOnClose]_vars

\* a stream abandoned while its sanitizer held text back
C13_Witness ==
  /\ stream.pc = "abandoned"
  /\ stream.sanitizer.pending # << >>
  /\ stream.calls = << "process" >>
  /\ stream.out = << >>

\* the profile with its semantic blocking switched off
SemanticDisabled(config) ==
  [config EXCEPT !.semantic_blocking.enabled = FALSE]

\* the verdict names the semantic rule
SemanticFired(result) == Contains(result.reason, S_SemanticOpen)

\* C22: an engine built while the embedding backend is missing, or fails
\* to load or to encode the intents, is built all the same; its validate
\* does not raise and never names the semantic rule, and its verdict for
\* every text is the verdict of the engine of the same profile with
\* semantic blocking switched off: the PII and topic detectors are as
\* active as there.
C22_BuildDegradesGracefully ==
  probe.backend # "ok" =>
    /\ ~SemanticActive(probe.engine)
    /\ probe.pc # "raised"
    /\ probe.pc \in {"validated", "revalidated"} =>
         /\ ~SemanticFired(probe.result)
         /\ probe.result =
              validate(GuardrailsEngine(SemanticDisabled(ConfigOf(probe.engine)),
                                        "ok"),
                       probe.text, 0)

\* an engine built without its backend blocks a phrase in a text whose
\* e-mail address it has redacted
C22_Witness ==
  /\ probe.backend \in {"missing", "load_fails", "encode_fails"}
  /\ probe.pc = "validated"
  /\ probe.result.action = "blocked"
  /\ probe.result.sanitized_text # probe.text

\* C23: the verdict names the semantic rule exactly when the profile
\* enables semantic blocking with at least one forbidden intent, the
\* backend has loaded, and the similarity of the text is greater than the
\* threshold of the profile; at the threshold it does not.
C23_SemanticFiresAboveThreshold ==
  probe.pc = "validated" =>
    ( SemanticFired(probe.result) <=>
        /\ ConfigOf(probe.engine).semantic_blocking.enabled
        /\ ConfigOf(probe.engine).semantic_blocking.forbidden_intents > 0
        /\ probe.backend = "ok"
        /\ probe.sim > ConfigOf(probe.engine).semantic_blocking.threshold )

\* a text whose similarity is the threshold of its profile is allowed
C23_Witness ==
  /\ probe.pc = "validated"
  /\ SemanticActive(probe.engine)
  /\ probe.sim = ConfigOf(probe.engine).semantic_blocking.threshold
  /\ probe.sim # DefaultThreshold
  /\ probe.result.action = "allowed"

\* the verdict is the one of the call's text validated alone, by validate
\* and by validate_async
Lone(engine, c) ==
  /\ c.result = validate(engine, c.text, c.sim)
  /\ c.result = validate_async(engine, c.text, c.sim)

\* C24: every validate or validate_async call that has returned, whatever
\* ran between its steps, returned the verdict of a lone validate of its
\* text; no step of a call changes the engine or the locals of another
\* call.
C24_ValidateIsPure ==
  /\ [](\A i \in CallIds :
          scans.calls[i].pc = "done" =>
            Lone(scans.engine, scans.calls[i]))
  /\ [][ /\ scans'.engine = scans.engine
         /\ \A i, j \in CallIds :
              (i # j /\ scans'.calls[i] # scans.calls[i]) =>
                scans'.calls[j] = scans.calls[j] ]_vars

\* two calls that ran at the same time have returned, one blocked and one
\* redacted
C24_Witness ==
  \E i, j \in CallIds :
    /\ scans.calls[i].pc = "done"
    /\ scans.calls[j].pc = "done"
    /\ scans.calls[j].overlaps
    /\ scans.calls[i].result.action = "blocked"
    /\ scans.calls[j].result.action = "redacted"

\* the wire-format families
Families == {"openai", "anthropic", "gemini"}

\* the route of the request's model is of the OpenAI-compatible family
IdentityRoute(req) == get_route(req.model) \notin {"anthropic", "gemini"}

\* the response to an upstream completion is the body as it came, but for
\* what the output guardrails did to the text of its first choice
BodyKept(req) ==
  IF Blocked_(req.out_result) THEN req.status = 400
  ELSE /\ req.status = 200
       /\ req.response.kind = "completion"
       /\ req.response.others = req.upstream.others
       /\ IF req.upstream.content = << >>
            THEN req.response.content = << >> /\ req.out_result = NoResult
            ELSE /\ req.out_result =
                      validate_output(req.guards, req.upstream.content, 0)
                 /\ req.response.content = req.out_result.sanitized_text

\* C25: every model name has a route of one of the families; a request of
\* the OpenAI-compatible family, which a name no prefix matches belongs
\* to, has sent upstream its own payload (its model and its sanitized
\* messages) as it is, and the body of a 200 answer is the response that is
\* validated and returned, with all its choices.
C25_IdentityAdapter ==
  /\ \A model \in RouteNames : get_route(model) \in Families
  /\ \A r \in RequestIds :
       (IdentityRoute(requests[r]) /\ requests[r].sent # << >>) =>
         /\ requests[r].sent =
              << [ model |-> requests[r].model,
                   messages |-> requests[r].messages ] >>
         /\ ( /\ requests[r].pc = "done"
              /\ requests[r].upstream.status = 200
              /\ requests[r].upstream.body = "completion" ) =>
                BodyKept(requests[r])
         /\ ( /\ requests[r].pc = "done"
              /\ requests[r].upstream.status = 200
              /\ requests[r].upstream.body = "no_choices" ) =>
                /\ requests[r].status = 200
                /\ requests[r].response.kind = "other"

\* a request for a model no prefix matches was answered with the two
\* choices of its upstream
C25_Witness ==
  \E r \in RequestIds :
    /\ requests[r].model = M_local
    /\ requests[r].pc = "done"
    /\ requests[r].status = 200
    /\ requests[r].upstream.others # << >>
    /\ requests[r].response.others = requests[r].upstream.others
    /\ requests[r].sent[1].messages = requests[r].messages

\* the verdict of the engine for the stringified input of the runnable
ChainVerdict == validate(chain.engine, to_string(chain.input), chain.sim)

\* C26: an invoke for which the engine gave a verdict has raised exactly
\* when the verdict is invalid with action blocked, and then nothing has
\* been returned or passed to the next step; otherwise it has returned the
\* sanitized text, the input as it was given, and the reason and action of
\* the verdict, and only that is passed on; the method called is validate
\* when check_input is true and validate_output when it is false.
C26_RunnableRaisesIffBlocked ==
  /\ chain.pc \in {"raised", "returned", "passed", "failed"} =>
       chain.called = (IF chain.check_input THEN "validate"
                                            ELSE "validate_output")
  /\ chain.pc \in {"raised", "returned", "passed"} =>
       /\ chain.pc = "raised" <=> Blocked_(ChainVerdict)
       /\ chain.pc = "raised" =>
            chain.output = NoOutput /\ chain.passed = << >>
       /\ chain.pc # "raised" =>
            /\ chain.output.sanitized_text = ChainVerdict.sanitized_text
            /\ chain.output.original_input = chain.input
            /\ chain.output.metadata.reason = ChainVerdict.reason
            /\ chain.output.metadata.action = ChainVerdict.action
       /\ chain.pc = "passed" => chain.passed = << chain.output >>
       /\ chain.pc = "returned" => chain.passed = << >>
  /\ chain.pc = "failed" => chain.output = NoOutput /\ chain.passed = << >>

\* a dict whose text was redacted by validate_output has been passed on
C26_Witness ==
  /\ chain.pc = "passed"
  /\ chain.input.kind = "dict"
  /\ ~chain.check_input
  /\ chain.output.metadata.action = "redacted"
  /\ chain.output.sanitized_text # to_string(chain.input)

\* the index of the message whose content step 1 takes as input_text
ScannedIndex(messages) ==
  IF LastUserIndex(messages) # 0 THEN LastUserIndex(messages)
  ELSE Len(messages)

\* the texts a payload carries, in the wire format of its family
SentTexts(family, payload) ==
  CASE family = "anthropic" ->
         {payload.system}
           \cup {payload.messages[i].content : i \in DOMAIN payload.messages}
    [] family = "gemini" ->
         {payload.system_instruction}
           \cup {payload.contents[i].parts : i \in DOMAIN payload.contents}
    [] OTHER ->
         {payload.messages[i].content : i \in DOMAIN payload.messages}

\* C27: a request whose input was validated as redacted and that has sent
\* a payload upstream has replaced the content of the message it scanned
\* by the sanitized text, and no text of the payload holds the text that
\* was scanned.
C27_RedactedTextNotForwarded ==
  \A r \in RequestIds :
    ( /\ requests[r].result.action = "redacted"
      /\ requests[r].sent # << >> ) =>
        /\ requests[r].messages[ScannedIndex(requests[r].messages)].content =
             requests[r].result.sanitized_text
        /\ \A t \in SentTexts(get_route(requests[r].model),
                               requests[r].sent[1]) :
             ~Contains(t, requests[r].input_text)

\* the same for the requests that have a message of role user
UserMessageReplaced ==
  \A r \in RequestIds :
    ( /\ requests[r].result.action = "redacted"
      /\ requests[r].sent # << >>
      /\ LastUserIndex(requests[r].messages) # 0 ) =>
        /\ requests[r].messages[ScannedIndex(requests[r].messages)].content =
             requests[r].result.sanitized_text
        /\ \A t \in SentTexts(get_route(requests[r].model),
                               requests[r].sent[1]) :
             ~Contains(t, requests[r].input_text)

\* the profile description a recorded path names: the profile the gateway
\* was started with, or the document of the file a switch has loaded
ProfileNamed(path) ==
  IF path[1] = ""
    THEN CHOOSE config \in Profiles : config.profile_name = path[2]
    ELSE FileAt(path).config

\* the engine enforces the rules of the description: it is the engine
\* __init__ builds from it
Enforces(engine, config) ==
  \E backend \in BackendsOf(config) : engine = GuardrailsEngine(config, backend)

\* the recorded path names the profile of the engine
ActiveProfileIsEnforced ==
  guardrails # NoEngine =>
    /\ get_profiles.active_profile = GUARDRAILS_PROFILE[2]
    /\ GUARDRAILS_PROFILE # NoPath
    /\ GUARDRAILS_PROFILE[1] # "" => GUARDRAILS_PROFILE \in LoadablePaths
    /\ Enforces(guardrails, ProfileNamed(GUARDRAILS_PROFILE))

\* guardrails and GUARDRAILS_PROFILE are assigned in the same step, and only
\* by a switch that answers 200 for the path it records
SwappedTogether ==
  /\ (guardrails' # guardrails \/ GUARDRAILS_PROFILE' # GUARDRAILS_PROFILE) =>
       /\ switches'.status = 200
       /\ GUARDRAILS_PROFILE' = switches'.path
  /\ (switches' # switches /\ switches'.status # 200) =>
       /\ guardrails' = guardrails
       /\ GUARDRAILS_PROFILE' = GUARDRAILS_PROFILE

Completion(req) ==
  IF req.upstream = NoOutcome
    THEN MockResponse(req.model, req.result).content
    ELSE Adapted(get_route(req.model), req.upstream).content

\* a verdict a step gives a request is one of the engine the request holds
OwnVerdicts(r) ==
  /\ requests'[r].result # requests[r].result =>
       \E sim \in SimilaritiesOf(requests'[r].guards) :
         requests'[r].result =
           validate(requests'[r].guards, requests'[r].input_text, sim)
  /\ requests'[r].out_result # requests[r].out_result =>
       \E sim \in SimilaritiesOf(requests'[r].guards) :
         requests'[r].out_result =
           validate_output(requests'[r].guards, Completion(requests'[r]), sim)

\* the engine of a request is the one get_guardrails returned when the
\* request arrived, and no later step gives it another
ReadOnce(r) ==
  /\ (requests[r].pc = "new" /\ requests'[r].pc # "new") =>
       requests'[r].guards = guardrails
  /\ requests[r].pc # "new" => requests'[r].guards = requests[r].guards
  /\ (requests[r].pc = "new" /\ requests'[r].pc = "new") =>
       requests'[r] = requests[r]

Overwritten(c, j) ==
  IF c.given[j].kind = "str"
    THEN \E sim \in SimilaritiesOf(c.engine) :
           /\ ~Blocked_(validate(c.engine, c.given[j].content, sim))
           /\ c.messages[j] =
                [c.given[j] EXCEPT
                   !.content = validate(c.engine, c.given[j].content,
                                        sim).sanitized_text]
    ELSE c.messages[j] = c.given[j]

\* message j is the first string message the engine blocks
FirstBlocked(c, j) ==
  /\ j \in 1..Len(c.given)
  /\ c.given[j].kind = "str"
  /\ c.result \in {validate(c.engine, c.given[j].content, sim) :
                     sim \in SimilaritiesOf(c.engine)}
  /\ Blocked_(c.result)

\* C30: create validates the string messages in list order and stops at the
\* first blocked one: when it has raised, the messages before the blocked
\* one hold their sanitized text, the blocked one and every later one are
\* as the caller gave them and the underlying client has not been called;
\* when it has called the underlying client, it called it once, with every
\* string message holding its sanitized text.  SentinelOpenAI and
\* SentinelAsyncOpenAI alike.
C30_CreateStopsAtFirstBlocked ==
  client.pc # "off" =>
    /\ Len(client.messages) = Len(client.given)
    /\ client.pc \in {"scanning", "raised"} =>
         /\ client.i \in 1..(Len(client.given) + 1)
         /\ \A j \in 1..(client.i - 1) : Overwritten(client, j)
         /\ \A j \in client.i..Len(client.given) :
              client.messages[j] = client.given[j]
         /\ client.calls = << >>
    /\ client.pc = "raised" => FirstBlocked(client, client.i)
    /\ client.pc = "called" =>
         /\ client.calls = << client.messages >>
         /\ \A j \in 1..Len(client.given) : Overwritten(client, j)

\* create has raised at the second message, the first one having been
\* redacted in the caller's list
C30_Witness ==
  /\ client.pc = "raised"
  /\ client.wrapper = "async"
  /\ client.i = 2
  /\ client.messages[1].content # client.given[1].content
  /\ client.messages[2] = client.given[2]
  /\ client.calls = << >>

\* C21: a request the handler has answered has exactly one audit record;
\* while the handler waits for its upstream it has none; the record of a
\* request blocked on its input is labelled BLOCKED, and a record is
\* labelled PASSED exactly when the status of the response is 200; the
\* record carries the text that was scanned and its sanitized text.
C21_AuditedExactlyOnce ==
  \A r \in RequestIds :
    /\ requests[r].pc = "upstream" => requests[r].audits = << >>
    /\ requests[r].pc = "done" =>
         /\ Len(requests[r].audits) = 1
         /\ requests[r].audits[1].original_prompt = requests[r].input_text
         /\ requests[r].audits[1].sanitized_prompt =
              requests[r].result.sanitized_text
         /\ Blocked_(requests[r].result) =>
              requests[r].audits[1].verdict.label = "BLOCKED"
         /\ requests[r].audits[1].verdict.label = "PASSED" <=>
              requests[r].status = 200

(***************************************************************************)
(* Specifications.                                                         *)
(***************************************************************************)
\* a gateway process, or a program that uses the client wrapper
Init ==
  /\ probe = ProbeIdle
  /\ stream = StreamOff
  /\ scans = ScansOff
  /\ chain = ChainOff
  /\ \/ GatewayInit /\ client = ClientOff
     \/ GatewayOff /\ ClientInit

Next ==
  \/ \E r \in RequestIds : ReceiveRequest(r)
  \/ \E r \in RequestIds : UpstreamReturns(r)
  \/ SwitchProfile
  \/ ClientScan
  \/ ClientCall

Spec == Init /\ [][Next]_vars

\* a gateway that is asked for models of every name
InitRoutes ==
  /\ probe = ProbeIdle
  /\ stream = StreamOff
  /\ scans = ScansOff
  /\ chain = ChainOff
  /\ client = ClientOff
  /\ GatewayInit

NextRoutes ==
  \/ \E r \in RequestIds : ReceiveAnyName(r)
  \/ \E r \in RequestIds : UpstreamReturns(r)

SpecRoutes == InitRoutes /\ [][NextRoutes]_vars

\* a gateway whose requests run beside switch_profile calls
InitSwap ==
  /\ probe = ProbeIdle
  /\ stream = StreamOff
  /\ scans = ScansOff
  /\ chain = ChainOff
  /\ client = ClientOff
  /\ GatewayInit

NextSwap ==
  \/ \E r \in RequestIds : ReceiveOpenAI(r)
  \/ \E r \in RequestIds : UpstreamReturns(r)
  \/ SwitchProfile

SpecSwap == InitSwap /\ [][NextSwap]_vars

\* a gateway whose profile enables semantic blocking
InitSemantic ==
  /\ probe = ProbeIdle
  /\ stream = StreamOff
  /\ scans = ScansOff
  /\ chain = ChainOff
  /\ client = ClientOff
  /\ SemanticGatewayInit

NextSemantic ==
  \/ \E r \in RequestIds : ReceiveRequest(r)
  \/ \E r \in RequestIds : UpstreamReturns(r)

SpecSemantic == InitSemantic /\ [][NextSemantic]_vars

\* the engine on its own
InitEngine ==
  /\ ProbeInit
  /\ GatewayOff
  /\ client = ClientOff
  /\ stream = StreamOff
  /\ scans = ScansOff
  /\ chain = ChainOff

NextEngine == Validate \/ Revalidate

SpecEngine == InitEngine /\ [][NextEngine]_vars

\* a streamed completion of the client wrapper
InitStream ==
  /\ probe = ProbeIdle
  /\ GatewayOff
  /\ client = ClientOff
  /\ scans = ScansOff
  /\ chain = ChainOff
  /\ StreamInit

\* validate and validate_async calls in progress on one engine
InitScans ==
  /\ probe = ProbeIdle
  /\ GatewayOff
  /\ client = ClientOff
  /\ stream = StreamOff
  /\ chain = ChainOff
  /\ ScansInit

NextScans ==
  \/ \E i \in CallIds : ScanCall(i)
  \/ \E i \in CallIds : ScanPii(i)
  \/ \E i \in CallIds : ScanTopics(i)
  \/ \E i \in CallIds : ScanSemantic(i)
  \/ \E i \in CallIds : ScanReturn(i)

SpecScans == InitScans /\ [][NextScans]_vars

\* a chain of a SentinelRunnable and a next step
InitChain ==
  /\ probe = ProbeIdle
  /\ GatewayOff
  /\ client = ClientOff
  /\ stream = StreamOff
  /\ scans = ScansOff
  /\ ChainInit

NextChain == Invoke \/ NextStep

SpecChain == InitChain /\ [][NextChain]_vars

NextStream == StreamChunk \/ StreamEnd \/ StreamAbandon \/ StreamFail

SpecStream == InitStream /\ [][NextStream]_vars

=============================================================================
